---- MODULE Spec2Model ----
(***************************************************************************)
(* A model of gisfun/fastmcp-map-app.  The repository holds two            *)
(* implementations of the same service:                                    *)
(*   "main"    : src/main.py, the monolithic FastAPI application           *)
(*   "modular" : src/websocket_handler.py + src/map_tools.py +             *)
(*               src/message_parser.py + src/llm_client.py                 *)
(* A run uses one of them (variable impl, fixed by Init).                  *)
(*                                                                         *)
(* JSON values are records [k, w, f]: k is the kind, and a number is       *)
(* w + f/10000 with 0 <= f < 10000 (w is its floor), so that non-integral  *)
(* numbers (5.5, 35.6762) are told apart from integers and compare as in   *)
(* Python.                                                                 *)
(***************************************************************************)
EXTENDS Integers, Sequences, FiniteSets, TLC

VARIABLES
  impl,        \* "main" or "modular"
  map_state,   \* the shared map state {"center": [lon, lat], "zoom": z}
  last,        \* the last dispatcher call: the call, the state before it, its result
  conn,        \* per connection: where its coroutine stands, and what it was sent
  active,      \* manager.active_connections (a list)
  held,        \* a snapshot a caller of the dispatcher kept, and what it shares
  norm         \* a message content handed to the normalizer, and what it made of it

vars == <<impl, map_state, last, conn, active, held, norm>>

(***************************** JSON values *********************************)
Num(n) == [k |-> "num", w |-> n, f |-> 0]

\* n + 1/2
Half(n) == [k |-> "num", w |-> n, f |-> 5000]

\* the number with sign neg, integral part whole and fractional part
\* frac/10000: Dec(FALSE, 35, 6762) is 35.6762, Dec(TRUE, 74, 60) is -74.0060
Dec(neg, whole, frac) ==
  IF ~neg THEN [k |-> "num", w |-> whole, f |-> frac]
  ELSE IF frac = 0 THEN [k |-> "num", w |-> 0 - whole, f |-> 0]
  ELSE [k |-> "num", w |-> 0 - whole - 1, f |-> 10000 - frac]

Str(i) == [k |-> "str", w |-> i, f |-> 0]

Null == [k |-> "null", w |-> 0, f |-> 0]

\* the empty string ""
EmptyStr == Str(0)

\* a key that is not in the dict (dict[key] raises KeyError, dict.get(key) is None)
Absent == [k |-> "absent", w |-> 0, f |-> 0]

\* Python's a < b on two numbers
Lt(a, b) == a.w < b.w \/ (a.w = b.w /\ a.f < b.f)

IsInteger(v) == v.k = "num" /\ v.f = 0

\* dict.get(key): a missing key reads as None
Get(v) == IF v = Absent THEN Null ELSE v

(************************* program constants *******************************)
MinZoom == 0

MaxZoom == 20

GeocodeZoom == 15

\* config.json is not among the sources: the defaults are those of the page
\* main.py serves (center [0, 0], zoom 2)
DefaultZoom == 2

DefaultCenter == <<Num(0), Num(0)>>

(******************************* tool calls ********************************)
\* The arguments text of a tool call, by what json.loads makes of it:
\* "object" (a dict with the keys that are not Absent), "nonobject" (a list,
\* number, string or null) or "malformed" (json.loads raises JSONDecodeError).
Args(lat, lon, z, addr) ==
  [parse |-> "object", latitude |-> lat, longitude |-> lon, zoom_level |-> z, address |-> addr]

NoArgs == Args(Absent, Absent, Absent, Absent)

NonObjectArgs == [NoArgs EXCEPT !.parse = "nonobject"]

MalformedArgs == [NoArgs EXCEPT !.parse = "malformed"]

\* form: "attr" (object with a .function attribute), "dict" (mapping with key
\* 'function'), "other" (neither)
ToolCall(form, name, args) == [form |-> form, name |-> name, args |-> args]

(******************************** results **********************************)
NoCoordinates == [latitude |-> Null, longitude |-> Null, confidence |-> Null, formatted_address |-> Null]

\* map_state.copy()
Copy(ms) == [center |-> ms.center, zoom |-> ms.zoom]

NoSnapshot == [center |-> <<Null, Null>>, zoom |-> Null]

\* a dict {"type": "tool_result", "tool": ..., "result": ..., "map_state": copy}
ToolResult(tool, content, ms) ==
  [type |-> "tool_result", tool |-> tool, content |-> content, exc |-> "none",
   has_state |-> TRUE, map_state |-> Copy(ms), coordinates |-> NoCoordinates]

\* a dict {"type": "error", "content": ...}: no "tool", "result" or "map_state" key
ErrorResult(content) ==
  [type |-> "error", tool |-> "none", content |-> content, exc |-> "none",
   has_state |-> FALSE, map_state |-> NoSnapshot, coordinates |-> NoCoordinates]

\* no dict is returned: the exception leaves the dispatcher
Raised(exc) ==
  [type |-> "raise", tool |-> "none", content |-> "none", exc |-> exc,
   has_state |-> FALSE, map_state |-> NoSnapshot, coordinates |-> NoCoordinates]

Outcome(ms, res) == [state |-> ms, res |-> res]

(***************************** MapTools (modular) **************************)
\* a tool that refuses a pair outside the ranges its schema describes
navigate_to_location_validating(ms, latitude, longitude) ==
  IF latitude.k = "num" /\ longitude.k = "num"
     /\ (Lt(latitude, Num(-90)) \/ Lt(Num(90), latitude)
           \/ Lt(longitude, Num(-180)) \/ Lt(Num(180), longitude))
  THEN Outcome(ms, ErrorResult("out_of_range"))
  ELSE LET new == [ms EXCEPT !.center = <<longitude, latitude>>]
       IN  Outcome(new, ToolResult("navigate_to_location", "navigated", new))

\* a tool that stores the pair as [lat, lon]
navigate_to_location_swapped(ms, latitude, longitude) ==
  LET new == [ms EXCEPT !.center = <<latitude, longitude>>]
  IN  Outcome(new, ToolResult("navigate_to_location", "navigated", new))

navigate_to_location(ms, latitude, longitude) ==
  LET new == [ms EXCEPT !.center = <<longitude, latitude>>]
  IN  Outcome(new, ToolResult("navigate_to_location", "navigated", new))

\* min(20, zoom_level): 20 unless zoom_level < 20
PyMin(bound, v) == IF Lt(v, bound) THEN v ELSE bound

\* max(0, m): 0 unless m > 0
PyMax(bound, v) == IF Lt(bound, v) THEN v ELSE bound

\* a tool that stores the level it is given
StoreAsGiven(zoom_level) == zoom_level

Clamp(zoom_level) == PyMax(Num(MinZoom), PyMin(Num(MaxZoom), zoom_level))

\* a tool that puts the map back to the default center when it zooms
zoom_to_level_recentering(ms, zoom_level) ==
  IF zoom_level.k # "num"
  THEN Outcome(ms, Raised("TypeError"))
  ELSE LET new == [center |-> DefaultCenter, zoom |-> Clamp(zoom_level)]
       IN  Outcome(new, ToolResult("zoom_to_level", "zoomed", new))

zoom_to_level(ms, zoom_level) ==
  IF zoom_level.k # "num"
  THEN Outcome(ms, Raised("TypeError"))
  ELSE LET new == [ms EXCEPT !.zoom = Clamp(zoom_level)]
       IN  Outcome(new, ToolResult("zoom_to_level", "zoomed", new))

\* The geocoding provider's answer to the one GET request.
\*   kind "client_error": aiohttp.ClientError; "http_error": status # 200;
\*   "json_error": response.json() raises or the payload is no dict;
\*   "payload": a dict whose "candidates" is the sequence cands.
Candidate(x, y, score, addr) == [x |-> x, y |-> y, score |-> score, address |-> addr]

GeoResponse(kind, cands) == [kind |-> kind, candidates |-> cands]

\* address_str is falsy (the left operand of "or"): the key is missing
\* (default ""), null, "" or the number 0
Falsy(addr) == addr \in {Absent, Null, EmptyStr, Num(0)}

\* f'{y:.6f}, {x:.6f}' is evaluated only when the candidate has no address,
\* and raises ValueError unless x and y are numbers
FormatRaises(c) == Falsy(c.address) /\ (c.x.k # "num" \/ c.y.k # "num")

\* a geocoder that takes the last candidate of the list
geocode_address_last(ms, address, geo) ==
  CASE geo.kind = "client_error" -> Outcome(ms, ErrorResult("geo_network"))
    [] geo.kind = "json_error"   -> Outcome(ms, ErrorResult("geo_unexpected"))
    [] geo.kind = "http_error"   -> Outcome(ms, ErrorResult("geo_http"))
    [] geo.kind = "payload" ->
         IF geo.candidates = <<>>
         THEN Outcome(ms, ErrorResult("geo_none"))
         ELSE LET best == geo.candidates[Len(geo.candidates)]
                  x == Get(best.x)
                  y == Get(best.y)
              IN  IF x = Null \/ y = Null
                  THEN Outcome(ms, ErrorResult("geo_invalid_coords"))
                  ELSE LET new == [center |-> <<x, y>>, zoom |-> Num(GeocodeZoom)]
                       IN  IF FormatRaises(best)
                           THEN Outcome(new, ErrorResult("geo_unexpected"))
                           ELSE Outcome(new,
                                  [ToolResult("geocode_address", "geocoded", new)
                                     EXCEPT !.coordinates =
                                       [latitude |-> y, longitude |-> x,
                                        confidence |-> IF best.score = Absent THEN Num(0) ELSE best.score,
                                        formatted_address |-> IF best.address = Absent THEN EmptyStr ELSE best.address]])

geocode_address(ms, address, geo) ==
  CASE geo.kind = "client_error" -> Outcome(ms, ErrorResult("geo_network"))
    [] geo.kind = "json_error"   -> Outcome(ms, ErrorResult("geo_unexpected"))
    [] geo.kind = "http_error"   -> Outcome(ms, ErrorResult("geo_http"))
    [] geo.kind = "payload" ->
         IF geo.candidates = <<>>
         THEN Outcome(ms, ErrorResult("geo_none"))
         ELSE LET best == geo.candidates[1]
                  x == Get(best.x)
                  y == Get(best.y)
              IN  IF x = Null \/ y = Null
                  THEN Outcome(ms, ErrorResult("geo_invalid_coords"))
                  ELSE LET new == [center |-> <<x, y>>, zoom |-> Num(GeocodeZoom)]
                       IN  IF FormatRaises(best)
                           THEN Outcome(new, ErrorResult("geo_unexpected"))
                           ELSE Outcome(new,
                                  [ToolResult("geocode_address", "geocoded", new)
                                     EXCEPT !.coordinates =
                                       [latitude |-> y, longitude |-> x,
                                        confidence |-> IF best.score = Absent THEN Num(0) ELSE best.score,
                                        formatted_address |-> IF best.address = Absent THEN EmptyStr ELSE best.address]])

execute_tool_call(ms, tc, geo) ==
  IF tc.form = "other"
  THEN Outcome(ms, ErrorResult("invalid_format"))
  ELSE LET a == tc.args IN
    IF a.parse = "malformed" THEN Outcome(ms, Raised("JSONDecodeError"))
    ELSE CASE tc.name = "navigate_to_location" ->
                IF a.parse = "nonobject" THEN Outcome(ms, Raised("TypeError"))
                ELSE IF a.latitude = Absent \/ a.longitude = Absent
                     THEN Outcome(ms, Raised("KeyError"))
                     ELSE navigate_to_location(ms, a.latitude, a.longitude)
           [] tc.name = "zoom_to_level" ->
                IF a.parse = "nonobject" THEN Outcome(ms, Raised("TypeError"))
                ELSE IF a.zoom_level = Absent
                     THEN Outcome(ms, Raised("KeyError"))
                     ELSE zoom_to_level(ms, a.zoom_level)
           [] tc.name = "geocode_address" ->
                IF a.parse = "nonobject" THEN Outcome(ms, Raised("TypeError"))
                ELSE IF a.address = Absent
                     THEN Outcome(ms, Raised("KeyError"))
                     ELSE geocode_address(ms, a.address, geo)
           [] OTHER -> Outcome(ms, ErrorResult("unknown_tool"))

(******************************* main.py ***********************************)
\* main.py's tools are MapTools' plus a broadcast of the result to every
\* connection (modelled where the connections are, in the session actions)
main_navigate_to_location(ms, latitude, longitude) ==
  LET new == [ms EXCEPT !.center = <<longitude, latitude>>]
  IN  Outcome(new, ToolResult("navigate_to_location", "navigated", new))

main_zoom_to_level(ms, zoom_level) ==
  IF zoom_level.k # "num"
  THEN Outcome(ms, Raised("TypeError"))
  ELSE LET new == [ms EXCEPT !.zoom = Clamp(zoom_level)]
       IN  Outcome(new, ToolResult("zoom_to_level", "zoomed", new))

main_execute_tool_call(ms, tc) ==
  IF tc.form = "other"
  THEN Outcome(ms, ErrorResult("invalid_format"))
  ELSE LET a == tc.args IN
    IF a.parse = "malformed" THEN Outcome(ms, Raised("JSONDecodeError"))
    ELSE CASE tc.name = "navigate_to_location" ->
                IF a.parse = "nonobject" THEN Outcome(ms, Raised("TypeError"))
                ELSE IF a.latitude = Absent \/ a.longitude = Absent
                     THEN Outcome(ms, Raised("KeyError"))
                     ELSE main_navigate_to_location(ms, a.latitude, a.longitude)
           [] tc.name = "zoom_to_level" ->
                IF a.parse = "nonobject" THEN Outcome(ms, Raised("TypeError"))
                ELSE IF a.zoom_level = Absent
                     THEN Outcome(ms, Raised("KeyError"))
                     ELSE main_zoom_to_level(ms, a.zoom_level)
           [] OTHER -> Outcome(ms, ErrorResult("unknown_tool"))

\* the dispatcher of the implementation in use
Dispatch(i, ms, tc, geo) ==
  IF i = "modular" THEN execute_tool_call(ms, tc, geo) ELSE main_execute_tool_call(ms, tc)

\* the tool names the dispatcher of implementation i knows
Registered(i) ==
  IF i = "modular"
  THEN {"navigate_to_location", "zoom_to_level", "geocode_address"}
  ELSE {"navigate_to_location", "zoom_to_level"}

(************************* the dispatcher's record *************************)
\* no provider was asked
NoGeo == GeoResponse("none", <<>>)

\* map_state as main.py builds it from the configured defaults
InitialMapState == [center |-> DefaultCenter, zoom |-> Num(DefaultZoom)]

NoLast ==
  [valid |-> FALSE, call |-> ToolCall("other", "none", NoArgs), geo |-> NoGeo,
   pre |-> InitialMapState, res |-> ErrorResult("none")]

\* the record of one dispatcher call
Called(tc, geo, pre, res) == [valid |-> TRUE, call |-> tc, geo |-> geo, pre |-> pre, res |-> res]

\* A snapshot ("map_state" of a returned result) a caller kept: snap is what
\* it reads now, taken what it read when it was returned, alias whether
\* snap["center"] still is the list object map_state["center"] refers to
\* (dict.copy() copies the dict, not the list under "center"), is_last
\* whether the snapshot is the dict the result of the last call holds under
\* "map_state" (no call was made since it was returned).
\* written: the caller has assigned to it; hit: such an assignment changed
\* map_state as well.
Held(snap, taken, alias) ==
  [valid |-> TRUE, snap |-> snap, taken |-> taken, alias |-> alias,
   is_last |-> TRUE, written |-> FALSE, hit |-> FALSE]

NoHeld ==
  [valid |-> FALSE, snap |-> NoSnapshot, taken |-> NoSnapshot, alias |-> FALSE,
   is_last |-> FALSE, written |-> FALSE, hit |-> FALSE]

(***************************** connections *********************************)
Conns == {"a", "b"}

\* inbound messages a connection accepts in a run
MaxMessages == 2

\* structured tool calls in one model reply
MaxCalls == 2

\* an outbound JSON message; via is "personal" (send_personal_message) or
\* "broadcast" (manager.broadcast)
Event(type, tool, content, has_state, ms, via) ==
  [type |-> type, tool |-> tool, content |-> content, has_state |-> has_state,
   map_state |-> ms, via |-> via]

\* pc: where the coroutine of the connection is suspended.  "new" (not
\* connected), "receive" (in receive_text, or in the last send_text before
\* it), "call_llm" (in call_llm), "fallback" (in the send_text of the LLM
\* error message; the fallback message is due), "tools" (in the for loop,
\* in the send_text of a tool_result message, another tool call is due),
\* "send_result" (in a send_text of the tool's broadcast, its own
\* tool_result message is not yet sent),
\* "closed" (WebSocketDisconnect), "crashed" (another exception left the
\* coroutine).  bidx is the number of entries of active_connections the for
\* loop of the running broadcast has taken.
\* The fields after pc describe the current inbound message and are reset
\* when the next one is received; offered is the structured tool calls of the
\* model's message, calls the tool calls the loop runs, frame the inbound
\* message as read, prose whether the model's message has a text as content,
\* post the WorldState as the assignment of the session's last tool call
\* left it, at_send the WorldState when that tool had returned and its
\* tool_result message was built and sent.
NewConn ==
  [pc |-> "new", received |-> 0, frame |-> "none", prose |-> FALSE, user |-> "none", messages |-> <<>>, llm_calls |-> 0,
   reply |-> "none", offered |-> <<>>, calls |-> <<>>, ndone |-> 0, pending |-> ErrorResult("none"),
   bidx |-> 0, turn_pre |-> InitialMapState, post |-> InitialMapState, at_send |-> InitialMapState,
   foreign |-> FALSE, events |-> <<>>, exc |-> "none"]

(***************************** model replies *******************************)
NoCall == ToolCall("none", "none", NoArgs)

NoCoords == <<Absent, Absent>>

\* The reply text by the features the extractors of main.py read:
\*   kind     "none" (content is None), "empty" ("") or "text"
\*   embed    the tool call a JSON object embedded in the text encodes, or NoCall
\*   verb     the text holds "navigate", "go to", "show me" or "take me"
\*   coords   what extract_coordinates_from_text returns (<<lat, lon>>), or NoCoords
\*   zoomword the text holds "zoom", "closer", "further" or "level"
\*   zoom     what extract_zoom_from_text returns, or Absent for None
Text(kind, embed, verb, coords, zoomword, zoom) ==
  [kind |-> kind, embed |-> embed, verb |-> verb, coords |-> coords,
   zoomword |-> zoomword, zoom |-> zoom]

(******************************* reply text ********************************)
\* The content of a model message is None, a text, or the text of a JSON
\* object.  A text is a sequence of tokens joined by single spaces: a token
\* is a lower-case word or a decimal number (a sign, the digits before the
\* point and the digits after it; no point when there are none).
Word(s) == [s |-> s, neg |-> FALSE, int |-> <<>>, frac |-> <<>>]

Number(neg, int, frac) == [s |-> "", neg |-> neg, int |-> int, frac |-> frac]

IsNumber(t) == t.int # <<>>

AllButLast(ds) == SubSeq(ds, 1, Len(ds) - 1)

\* int() of a string of digits
RECURSIVE DigitsValue(_)
DigitsValue(ds) ==
  IF ds = <<>> THEN 0 ELSE 10 * DigitsValue(AllButLast(ds)) + ds[Len(ds)]

\* the digits after the point (at most four) in ten-thousandths
FracValue(ds) ==
  DigitsValue(ds) * (CASE Len(ds) = 1 -> 1000 [] Len(ds) = 2 -> 100
                       [] Len(ds) = 3 -> 10 [] OTHER -> 1)

\* float() of the text "-int.frac"
Float(neg, int, frac) == Dec(neg, DigitsValue(int), FracValue(frac))

\* text contains the words ws, one after the other ("place in text_lower")
Contains(toks, ws) ==
  \E i \in 0..(Len(toks) - Len(ws)) : \A j \in 1..Len(ws) : toks[i + j].s = ws[j]

\* the words of the texts that begin with "to": "go to" is a substring of
\* "go tokyo" and of "go tower" as well
BeginsWithTo(t) == t.s \in {"to", "tokyo", "tower"}

\* any(word in text_lower for word in ["navigate", "go to", "show me", "take me"])
HasVerb(toks) ==
  \E i \in 1..Len(toks) :
    \/ toks[i].s = "navigate"
    \/ /\ i < Len(toks)
       /\ \/ toks[i].s = "go" /\ BeginsWithTo(toks[i + 1])
          \/ toks[i].s \in {"show", "take"} /\ toks[i + 1].s = "me"

\* the locations dict, in its order
Locations ==
  << [place |-> <<"new", "york">>, lat |-> Dec(FALSE, 40, 7128), lon |-> Dec(TRUE, 74, 60)],
     [place |-> <<"nyc">>, lat |-> Dec(FALSE, 40, 7128), lon |-> Dec(TRUE, 74, 60)],
     [place |-> <<"london">>, lat |-> Dec(FALSE, 51, 5074), lon |-> Dec(TRUE, 0, 1278)],
     [place |-> <<"paris">>, lat |-> Dec(FALSE, 48, 8566), lon |-> Dec(FALSE, 2, 3522)],
     [place |-> <<"tokyo">>, lat |-> Dec(FALSE, 35, 6762), lon |-> Dec(FALSE, 139, 6503)],
     [place |-> <<"sydney">>, lat |-> Dec(TRUE, 33, 8688), lon |-> Dec(FALSE, 151, 2093)],
     [place |-> <<"eiffel", "tower">>, lat |-> Dec(FALSE, 48, 8584), lon |-> Dec(FALSE, 2, 2945)],
     [place |-> <<"grand", "canyon">>, lat |-> Dec(FALSE, 36, 1069), lon |-> Dec(TRUE, 112, 1129)],
     [place |-> <<"statue", "of", "liberty">>, lat |-> Dec(FALSE, 40, 6892), lon |-> Dec(TRUE, 74, 445)] >>

\* the places of the dict the text names
PlacesIn(toks) == {i \in 1..Len(Locations) : Contains(toks, Locations[i].place)}

\* for place, coords in locations.items(): if place in text_lower: return
\* coords -- the first place of the dict the text names
FirstPlace(toks) ==
  IF PlacesIn(toks) = {} THEN NoCoords
  ELSE LET i == CHOOSE i \in PlacesIn(toks) : \A j \in PlacesIn(toks) : i <= j
       IN  <<Locations[i].lat, Locations[i].lon>>

\* (-?\d+\.?\d*)[^-\d]*(-?\d+\.?\d*) matched at a number followed by another
\* one: the two groups are the two numbers
WholePair(a, b) == <<Float(a.neg, a.int, a.frac), Float(b.neg, b.int, b.frac)>>

\* the same pattern at a number that no other number follows: the first
\* group gives back its last digit to the second ("35" is read as 3 and 5,
\* "35.56" as 35.5 and 6), which a number of one digit cannot
Splittable(a) == a.frac # <<>> \/ Len(a.int) >= 2

SplitPair(a) ==
  IF a.frac # <<>>
  THEN <<Float(a.neg, a.int, AllButLast(a.frac)), Num(a.frac[Len(a.frac)])>>
  ELSE <<Float(a.neg, AllButLast(a.int), <<>>), Num(a.int[Len(a.int)])>>

\* re.findall(coord_pattern, text): the matches from left to right, over the
\* numbers of the text (words and spaces fill the gap between the groups)
RECURSIVE CoordMatches(_)
CoordMatches(nums) ==
  IF Len(nums) >= 2
  THEN <<WholePair(nums[1], nums[2])>> \o CoordMatches(SubSeq(nums, 3, Len(nums)))
  ELSE IF Len(nums) = 1 /\ Splittable(nums[1]) THEN <<SplitPair(nums[1])>>
  ELSE <<>>

\* -90 <= lat <= 90 and -180 <= lon <= 180
InRange(pair) ==
  /\ ~Lt(pair[1], Num(-90)) /\ ~Lt(Num(90), pair[1])
  /\ ~Lt(pair[2], Num(-180)) /\ ~Lt(Num(180), pair[2])

\* message_parser.py: re.search gives the first match only, which is taken
\* when it is in range
SearchCoordinates(toks) ==
  LET ms == CoordMatches(SelectSeq(toks, IsNumber))
  IN  IF ms # <<>> /\ InRange(ms[1]) THEN ms[1] ELSE NoCoords

\* main.py: the first match of re.findall that is in range
RECURSIVE FirstInRange(_)
FirstInRange(ms) ==
  IF ms = <<>> THEN NoCoords
  ELSE IF InRange(ms[1]) THEN ms[1]
  ELSE FirstInRange(Tail(ms))

\* a call that carries the pair as longitude, latitude
NavigateCallSwapped(pair) ==
  ToolCall("dict", "navigate_to_location", Args(pair[2], pair[1], Absent, Absent))

\* json.dumps({"latitude": lat, "longitude": lon}) under "navigate_to_location"
NavigateCall(pair) ==
  ToolCall("dict", "navigate_to_location", Args(pair[1], pair[2], Absent, Absent))

\* json.dumps({"zoom_level": zoom}) under "zoom_to_level"
ZoomCall(level) ==
  ToolCall("dict", "zoom_to_level", Args(Absent, Absent, level, Absent))

\* an extractor that looks for a place or a pair of numbers whatever the
\* text says besides
extract_tool_from_text_ungated(toks) ==
  IF FirstPlace(toks) # NoCoords THEN NavigateCall(FirstPlace(toks))
  ELSE IF SearchCoordinates(toks) # NoCoords THEN NavigateCall(SearchCoordinates(toks))
  ELSE NoCall

\* message_parser.extract_tool_from_text
extract_tool_from_text(toks) ==
  IF HasVerb(toks) /\ FirstPlace(toks) # NoCoords THEN NavigateCall(FirstPlace(toks))
  ELSE IF HasVerb(toks) /\ SearchCoordinates(toks) # NoCoords
       THEN NavigateCall(SearchCoordinates(toks))
  ELSE NoCall

\* main.extract_coordinates_from_text
main_extract_coordinates_from_text(toks) ==
  IF FirstPlace(toks) # NoCoords THEN FirstPlace(toks)
  ELSE FirstInRange(CoordMatches(SelectSeq(toks, IsNumber)))

\* (\d+): the digits of a number without sign, up to its point
Digits(t) == IsNumber(t) /\ ~t.neg

\* zoom\s*(?:to\s*)?(\d+) matches at token i
ZoomTo(toks, i) ==
  /\ toks[i].s = "zoom"
  /\ \/ i + 1 <= Len(toks) /\ Digits(toks[i + 1])
     \/ i + 2 <= Len(toks) /\ toks[i + 1].s = "to" /\ Digits(toks[i + 2])

\* (?:zoom|set)\s+level\s*to?\s*(\d+) matches at token i
LevelTo(toks, i) ==
  /\ i + 3 <= Len(toks)
  /\ toks[i].s \in {"zoom", "set"} /\ toks[i + 1].s = "level"
  /\ toks[i + 2].s = "to" /\ Digits(toks[i + 3])

\* zoom\s*(?:in|out) matches at token i
ZoomInOut(toks, i) ==
  i + 1 <= Len(toks) /\ toks[i].s = "zoom" /\ toks[i + 1].s \in {"in", "out"}

\* whether the named pattern of zoom_patterns matches at token i
PatternAt(pattern, toks, i) ==
  CASE pattern = "zoom_to"     -> ZoomTo(toks, i)
    [] pattern = "level_to"    -> LevelTo(toks, i)
    [] pattern = "zoom_in_out" -> ZoomInOut(toks, i)

\* re.search: whether the pattern matches somewhere in the text
Matches(toks, pattern) == \E i \in 1..Len(toks) : PatternAt(pattern, toks, i)

\* re.search: the leftmost place of the text where the pattern matches
Leftmost(toks, pattern) ==
  CHOOSE i \in 1..Len(toks) :
    PatternAt(pattern, toks, i) /\ \A j \in 1..(i - 1) : ~PatternAt(pattern, toks, j)

\* int(match.group(1)) of a match of the first pattern at token i
ZoomToLevel(toks, i) ==
  Num(DigitsValue((IF Digits(toks[i + 1]) THEN toks[i + 1] ELSE toks[i + 2]).int))

\* int(match.group(1)) of a match of the level pattern at token i
LevelToLevel(toks, i) == Num(DigitsValue(toks[i + 3].int))

\* max(0, min(20, zoom)) in the extractors
ClampLevel(zoom) == PyMax(Num(MinZoom), PyMin(Num(MaxZoom), zoom))

\* message_parser.extract_zoom_from_text (None is Absent)
extract_zoom_from_text(toks) ==
  IF Matches(toks, "zoom_to") THEN ClampLevel(ZoomToLevel(toks, Leftmost(toks, "zoom_to")))
  ELSE IF Matches(toks, "level_to") THEN ClampLevel(LevelToLevel(toks, Leftmost(toks, "level_to")))
  ELSE Absent

\* main.py: explicit_zoom_phrases, with whether "out" and "in" are in the phrase
ZoomPhrases ==
  << [words |-> <<"zoom", "in">>, out |-> FALSE, in |-> TRUE],
     [words |-> <<"zoom", "out">>, out |-> TRUE, in |-> FALSE],
     [words |-> <<"zoom", "closer">>, out |-> FALSE, in |-> FALSE],
     [words |-> <<"zoom", "further">>, out |-> FALSE, in |-> FALSE],
     [words |-> <<"i", "want", "to", "zoom">>, out |-> FALSE, in |-> FALSE],
     [words |-> <<"please", "zoom">>, out |-> FALSE, in |-> FALSE],
     [words |-> <<"can", "you", "zoom">>, out |-> FALSE, in |-> FALSE] >>

\* the loop over explicit_zoom_phrases: the first phrase of the text that
\* decides, 3 for out or further, 10 for in or closer
PhraseLevel(toks) ==
  LET further == Contains(toks, <<"further">>)
      closer  == Contains(toks, <<"closer">>)
      decides == {k \in 1..Len(ZoomPhrases) :
                    /\ Contains(toks, ZoomPhrases[k].words)
                    /\ ZoomPhrases[k].out \/ further \/ ZoomPhrases[k].in \/ closer}
  IN  IF decides = {} THEN Absent
      ELSE LET k == CHOOSE k \in decides : \A j \in decides : k <= j
           IN  IF ZoomPhrases[k].out \/ further THEN Num(3) ELSE Num(10)

\* main.extract_zoom_from_text (None is Absent)
main_extract_zoom_from_text(toks) ==
  IF Matches(toks, "zoom_to") THEN ClampLevel(ZoomToLevel(toks, Leftmost(toks, "zoom_to")))
  ELSE IF Matches(toks, "zoom_in_out")
       THEN IF toks[Leftmost(toks, "zoom_in_out") + 1].s = "out" THEN Num(3) ELSE Num(10)
  ELSE IF Matches(toks, "level_to") THEN ClampLevel(LevelToLevel(toks, Leftmost(toks, "level_to")))
  ELSE PhraseLevel(toks)

\* any(word in text.lower() for word in ["zoom", "closer", "further", "level"])
ZoomWord(toks) == \E i \in 1..Len(toks) : toks[i].s \in {"zoom", "closer", "further", "level"}

\* The content of a message.  kind is "none" (None), "text" or "object" (the
\* text of a JSON object).  toks are the words and numbers of a text; for an
\* object with a key the parser does not know, key is the name of that key
\* and toks the string under it (key is <<>> when there is none).
Content(kind, toks, obj, key) == [kind |-> kind, toks |-> toks, obj |-> obj, key |-> key]

\* a string value of an object, or the key is missing
Slot(toks) == [has |-> TRUE, toks |-> toks]

NoSlot == [has |-> FALSE, toks |-> <<>>]

\* a key whose value would be the arguments is missing
AbsentArgs == [NoArgs EXCEPT !.parse = "absent"]

\* a JSON object by the keys the parser reads: "response" (a string),
\* "function_name" (has_name tells whether the key is there), "parameters",
\* "navigate_to_location" and "zoom_to_level"
JObject(response, has_name, function_name, parameters, navigate, zoom) ==
  [response |-> response, has_name |-> has_name, function_name |-> function_name,
   parameters |-> parameters, navigate_to_location |-> navigate, zoom_to_level |-> zoom]

NoObject == JObject(NoSlot, FALSE, "none", AbsentArgs, AbsentArgs, AbsentArgs)

NoContent == Content("none", <<>>, NoObject, <<>>)

TextContent(toks) == Content("text", toks, NoObject, <<>>)

ObjectContent(obj, key, toks) == Content("object", toks, obj, key)

\* JSON punctuation of the raw text between two of its strings or numbers:
\* no word or place reaches across it
Sep == Word(":")

\* the decimal digits of a natural number
RECURSIVE NatDigits(_)
NatDigits(n) == IF n < 10 THEN <<n>> ELSE NatDigits(n \div 10) \o <<n % 10>>

\* a JSON value as the raw text has it: a number by its sign and digits
\* (those after the point without trailing zeros), null, or a string (a
\* string under a key of the arguments is taken to hold no verb, no place
\* and no digit)
ValueText(v) ==
  CASE v.k = "num" ->
         LET neg   == v.w < 0
             whole == IF ~neg THEN v.w ELSE IF v.f = 0 THEN 0 - v.w ELSE 0 - v.w - 1
             frac  == IF ~neg \/ v.f = 0 THEN v.f ELSE 10000 - v.f
             all   == <<frac \div 1000, (frac \div 100) % 10, (frac \div 10) % 10, frac % 10>>
             n     == IF frac = 0 THEN 0
                      ELSE CHOOSE k \in 1..4 : all[k] # 0 /\ \A j \in (k + 1)..4 : all[j] = 0
         IN  <<Number(neg, NatDigits(whole), SubSeq(all, 1, n))>>
    [] v.k = "null" -> <<Word("null")>>
    [] OTHER -> IF v = EmptyStr THEN <<Sep>> ELSE <<Sep, Word("string"), Sep>>

\* The raw text of the content, which the extractors search.  Of a JSON
\* object it has the keys the object has with their values, in this order:
\* "response", "function_name", "parameters", "navigate_to_location",
\* "zoom_to_level", and the key the parser does not know with its string.
\* A name is there by its parts and the underscores between them
\* ("navigate" is a substring of "navigate_to_location"); a value that should
\* be the arguments and is no object is taken to be null or an empty list,
\* nothing an extractor reads.
RawText(content) ==
  LET Us == Word("_")
      Ident(name) ==
        CASE name = "navigate_to_location" -> <<Word("navigate"), Us, Word("to"), Us, Word("location")>>
          [] name = "zoom_to_level" -> <<Word("zoom"), Us, Word("to"), Us, Word("level")>>
          [] name = "zoom_level"    -> <<Word("zoom"), Us, Word("level")>>
          [] name = "function_name" -> <<Word("function"), Us, Word("name")>>
          [] name = "fly_to"        -> <<Word("fly"), Us, Word("to")>>
          [] OTHER                  -> <<Word(name)>>
      Key(name) == <<Sep>> \o Ident(name) \o <<Sep>>
      MemberText(name, v) == IF v = Absent THEN <<>> ELSE Key(name) \o ValueText(v)
      ArgsText(name, a) ==
        CASE a.parse = "absent" -> <<>>
          [] a.parse = "object" ->
               Key(name)
                 \o MemberText("latitude", a.latitude) \o MemberText("longitude", a.longitude)
                 \o MemberText("zoom_level", a.zoom_level) \o MemberText("address", a.address)
          [] OTHER -> Key(name)
      o == content.obj
  IN  IF content.kind # "object" THEN content.toks
      ELSE (IF o.response.has THEN Key("response") \o o.response.toks \o <<Sep>> ELSE <<>>)
             \o (IF o.has_name THEN Key("function_name") \o Ident(o.function_name) \o <<Sep>> ELSE <<>>)
             \o ArgsText("parameters", o.parameters)
             \o ArgsText("navigate_to_location", o.navigate_to_location)
             \o ArgsText("zoom_to_level", o.zoom_to_level)
             \o (IF content.key = <<>> THEN <<>>
                 ELSE <<Sep>> \o content.key \o <<Sep>> \o content.toks \o <<Sep>>)

\* message_parser.extract_json_tool_call: json.dumps of the value under the
\* key ({} for a missing "parameters")
extract_json_tool_call(obj) ==
  IF obj.has_name
  THEN ToolCall("dict", obj.function_name,
                IF obj.parameters.parse = "absent" THEN NoArgs ELSE obj.parameters)
  ELSE IF obj.navigate_to_location.parse # "absent"
       THEN ToolCall("dict", "navigate_to_location", obj.navigate_to_location)
  ELSE IF obj.zoom_to_level.parse # "absent"
       THEN ToolCall("dict", "zoom_to_level", obj.zoom_to_level)
  ELSE NoCall

\* what parse_llm_response returns: the dict's "type", "content" and
\* "tool_calls" (None is <<>>), or the exception that leaves it
Parsed(type, content, tool_calls) ==
  [type |-> type, content |-> content, tool_calls |-> tool_calls, exc |-> "none"]

ParseRaised(exc) == [type |-> "raise", content |-> NoContent, tool_calls |-> <<>>, exc |-> exc]

\* a fallback that answers a text it finds no tool call in with no content
text_fallback_empty(content) ==
  LET e == extract_tool_from_text(RawText(content))
  IN  IF e # NoCall THEN Parsed("tool_calls", NoContent, <<e>>)
      ELSE Parsed("text_response", NoContent, <<>>)

\* parse_llm_response, lines 142-158: the fallback to text extraction over
\* the raw content, and the default
text_fallback(content) ==
  LET e == extract_tool_from_text(RawText(content))
  IN  IF e # NoCall THEN Parsed("tool_calls", NoContent, <<e>>)
      ELSE Parsed("text_response", content, <<>>)

\* a parser that looks for a tool call in an object before it looks for
\* "response"
parse_llm_response_call_first(content) ==
  IF content.kind = "none" THEN ParseRaised("AttributeError")
  ELSE IF content.kind = "object" /\ extract_json_tool_call(content.obj) # NoCall
       THEN Parsed("tool_calls", NoContent, <<extract_json_tool_call(content.obj)>>)
  ELSE IF content.kind = "object" /\ content.obj.response.has
       THEN Parsed("text_response", TextContent(content.obj.response.toks), <<>>)
  ELSE text_fallback(content)

\* message_parser.parse_llm_response(content): content.strip() raises
\* AttributeError on None; json.loads of a text that is no JSON raises
\* JSONDecodeError, which is caught, and a JSON value that is no dict (a
\* single number) is passed over
parse_llm_response(content) ==
  IF content.kind = "none" THEN ParseRaised("AttributeError")
  ELSE IF content.kind = "object" /\ content.obj.response.has
       THEN Parsed("text_response", TextContent(content.obj.response.toks), <<>>)
  ELSE IF content.kind = "object" /\ extract_json_tool_call(content.obj) # NoCall
       THEN Parsed("tool_calls", NoContent, <<extract_json_tool_call(content.obj)>>)
  ELSE text_fallback(content)

\* What main.extract_tool_from_text reads in the content.  json_patterns
\* (lines 126-152) match a brace group without braces inside that holds
\* "function_name", "tool", "navigate_to" or "zoom_to" between quotes: of
\* the contents here, the object with "function_name" whose other values are
\* no objects (an object under "parameters", "navigate_to_location" or
\* "zoom_to_level" puts braces inside, and the inner group holds none of the
\* four names); its call has json.dumps of the value under "parameters", {}
\* when the key is missing.  Verb, coordinates and zoom are searched in the
\* raw text, names of keys included.
Features(content) ==
  LET toks  == RawText(content)
      o     == content.obj
      flat  == \A a \in {o.parameters, o.navigate_to_location, o.zoom_to_level} : a.parse # "object"
      embed == IF content.kind = "object" /\ o.has_name /\ flat
               THEN ToolCall("dict", o.function_name,
                             IF o.parameters.parse = "absent" THEN NoArgs ELSE o.parameters)
               ELSE NoCall
  IN  Text(IF content.kind = "none" THEN "none"
           ELSE IF content.kind = "text" /\ toks = <<>> THEN "empty" ELSE "text",
           embed, HasVerb(toks), main_extract_coordinates_from_text(toks),
           ZoomWord(toks), main_extract_zoom_from_text(toks))

\* the normalizer at work: stage is "idle", "input" (content is handed in),
\* "normalized" (out is what the normalizer returned) or "dispatched" (the
\* tool call of out went through the dispatcher)
Norm(stage, content, out) == [stage |-> stage, content |-> content, out |-> out]

NoNorm == Norm("idle", NoContent, Parsed("none", NoContent, <<>>))

NoneText == Features(NoContent)

\* "hello"
ProseText == Features(TextContent(<<Word("hello")>>))

\* "navigate to tokyo": the gazetteer gives 35.6762, 139.6503
NavText == Features(TextContent(<<Word("navigate"), Word("to"), Word("tokyo")>>))

\* "zoom to 99": extract_zoom_from_text returns max(0, min(20, 99))
ZoomText == Features(TextContent(<<Word("zoom"), Word("to"), Number(FALSE, <<9, 9>>, <<>>)>>))

Texts == {NoneText, ProseText, NavText, ZoomText}

\* an extractor that looks for a zoom phrase before it looks for coordinates
main_extract_tool_from_text_zoom_first(text) ==
  IF text.embed # NoCall THEN text.embed
  ELSE IF text.zoomword /\ text.zoom # Absent
       THEN ToolCall("dict", "zoom_to_level", Args(Absent, Absent, text.zoom, Absent))
  ELSE IF text.verb /\ text.coords # NoCoords
       THEN ToolCall("dict", "navigate_to_location",
                     Args(text.coords[1], text.coords[2], Absent, Absent))
  ELSE NoCall

main_extract_tool_from_text(text) ==
  IF text.embed # NoCall THEN text.embed
  ELSE IF text.verb /\ text.coords # NoCoords
       THEN ToolCall("dict", "navigate_to_location",
                     Args(text.coords[1], text.coords[2], Absent, Absent))
  ELSE IF text.zoomword /\ text.zoom # Absent
       THEN ToolCall("dict", "zoom_to_level", Args(Absent, Absent, text.zoom, Absent))
  ELSE NoCall

\* what the model API returns: an exception (ok = FALSE) or a message with
\* content and structured tool calls
Reply(ok, content, tool_calls) == [ok |-> ok, content |-> content, tool_calls |-> tool_calls]

\* main.py's call_llm: the dict it returns
main_call_llm(r) ==
  IF ~r.ok
  THEN [success |-> FALSE, content |-> NoneText, tool_calls |-> <<>>]
  ELSE [success |-> TRUE, content |-> r.content,
        tool_calls |->
          IF r.tool_calls = <<>> /\ r.content.kind = "text"
          THEN LET e == main_extract_tool_from_text(r.content)
               IN  IF e = NoCall THEN <<>> ELSE <<e>>
          ELSE r.tool_calls]

\* LLMClient.call_llm: the dict it returns
call_llm(r) ==
  IF ~r.ok
  THEN [success |-> FALSE, content |-> NoneText, tool_calls |-> <<>>]
  ELSE [success |-> TRUE, content |-> r.content, tool_calls |-> r.tool_calls]

\* the reply by what it carries, whatever the implementation makes of it
ReplyKind(r) ==
  IF ~r.ok THEN "failure"
  ELSE IF r.tool_calls # <<>> THEN "structured"
  ELSE IF r.content.kind = "text" /\ main_extract_tool_from_text(r.content) # NoCall
       THEN "text_tool"
  ELSE "plain"

\* the structured tool calls of a message are objects of the client library
\* (attribute form); a call in mapping form only comes out of the text
SessionCalls ==
  {ToolCall("attr", "navigate_to_location", Args(Num(35), Num(139), Absent, Absent)),
   ToolCall("attr", "zoom_to_level", Args(Absent, Absent, Num(99), Absent)),
   ToolCall("attr", "zoom_to_level", Args(Absent, Absent, Num(5), Absent)),
   ToolCall("attr", "zoom_to_level", NoArgs),
   ToolCall("attr", "fly_to", NoArgs)}

SeqsUpTo(S, n) == UNION {[1..k -> S] : k \in 0..n}

Replies ==
  {Reply(FALSE, NoneText, <<>>)}
    \cup {Reply(TRUE, t, <<>>) : t \in Texts}
    \cup {Reply(TRUE, t, cs) : t \in {NoneText, ProseText, NavText},
                               cs \in SeqsUpTo(SessionCalls, MaxCalls) \ {<<>>}}

\* inbound frames: a chat_message (by what its content asks for), a message
\* of another type, a JSON object without "type", text that is no JSON
Inbound == {"chat_nav", "chat_zoom", "chat_else", "other_type", "no_type", "bad_json"}

IsChat(m) == m \in {"chat_nav", "chat_zoom", "chat_else"}

\* the context a chat_message seeds: the system prompt and the user's text
SeedMessages == <<"system", "user">>

(**************************** session actions ******************************)
Send(cn, ev) == [cn EXCEPT !.events = Append(@, ev)]

SystemMessage(content) == Event("system-message", "none", content, FALSE, NoSnapshot, "personal")

\* c is an entry of manager.active_connections
IsActive(c) == \E i \in 1..Len(active) : active[i] = c

\* list.remove(c): the list without its first entry c
RECURSIVE Remove(_, _)
Remove(list, c) ==
  IF list = <<>> THEN <<>>
  ELSE IF Head(list) = c THEN Tail(list)
  ELSE <<Head(list)>> \o Remove(Tail(list), c)

\* manager.connect
Connect(c) ==
  /\ conn[c].pc = "new"
  /\ conn' = [conn EXCEPT ![c].pc = "receive"]
  /\ active' = Append(active, c)
  /\ UNCHANGED <<impl, map_state, last, held, norm>>

\* receive_text raises WebSocketDisconnect: manager.disconnect
Disconnect(c) ==
  /\ conn[c].pc = "receive"
  /\ conn' = [conn EXCEPT ![c].pc = "closed"]
  /\ active' = Remove(active, c)
  /\ UNCHANGED <<impl, map_state, last, held, norm>>

\* the connection record when inbound message m has been read: what the
\* last message left is gone
Fresh(cn, m) ==
  [cn EXCEPT !.received = @ + 1, !.frame = m, !.prose = FALSE, !.user = "none", !.messages = <<>>, !.llm_calls = 0,
             !.reply = "none", !.offered = <<>>, !.calls = <<>>, !.ndone = 0, !.pending = ErrorResult("none"),
             !.bidx = 0, !.turn_pre = map_state, !.post = map_state, !.at_send = map_state,
             !.foreign = FALSE, !.events = <<>>]

Crash(cn, exc) == [cn EXCEPT !.pc = "crashed", !.exc = exc]

\* up to the await of call_llm
StartTurn(cn, m) ==
  [cn EXCEPT !.user = m, !.messages = SeedMessages, !.llm_calls = @ + 1, !.pc = "call_llm"]

\* main.py websocket_endpoint: one receive_text and what follows up to the
\* next await
main_receive(cn, m) ==
  CASE m = "bad_json"   -> Crash(cn, "JSONDecodeError")
    [] m = "no_type"    -> Crash(cn, "KeyError")
    [] m = "other_type" -> cn
    [] OTHER            -> StartTurn(cn, m)

\* WebSocketHandler.handle_websocket and handle_message, likewise
handler_receive(cn, m) ==
  CASE m = "bad_json"   -> Send(cn, SystemMessage("invalid_json"))
    [] m = "no_type"    -> Crash(cn, "KeyError")
    [] m = "other_type" -> cn
    [] OTHER            -> StartTurn(cn, m)

\* a loop that reads the next frame while the last one is still handled
ReceiveAnytime(c, msgs) ==
  /\ conn[c].pc \in {"receive", "call_llm", "fallback", "tools", "send_result"}
  /\ conn[c].received < MaxMessages
  /\ \E m \in msgs :
       conn' = [conn EXCEPT ![c] =
                  IF impl = "main" THEN main_receive(Fresh(conn[c], m), m)
                                   ELSE handler_receive(Fresh(conn[c], m), m)]
  /\ UNCHANGED <<impl, map_state, last, active, held, norm>>

\* the coroutine of the connection reads its next frame: it stands at
\* receive_text only when what the last frame started has returned
Receive(c, msgs) ==
  /\ conn[c].pc = "receive"
  /\ conn[c].received < MaxMessages
  /\ \E m \in msgs :
       conn' = [conn EXCEPT ![c] =
                  IF impl = "main" THEN main_receive(Fresh(conn[c], m), m)
                                   ELSE handler_receive(Fresh(conn[c], m), m)]
  /\ UNCHANGED <<impl, map_state, last, active, held, norm>>

\* main.py: the fallback message after an LLM error, by the user's text
Fallback(user) ==
  CASE user = "chat_nav"  -> "fallback_navigate"
    [] user = "chat_zoom" -> "fallback_zoom"
    [] OTHER              -> "fallback_other"

\* WebSocketHandler.handle_message from the return of call_llm on: a
\* successful reply is handed to parse_llm_response with three positional
\* arguments, which takes two, so TypeError leaves handle_message and
\* handle_websocket; a failed reply is dropped without any message.
handler_on_reply(cn, r) ==
  LET resp == call_llm(r)
      got  == [cn EXCEPT !.reply = ReplyKind(r), !.offered = r.tool_calls,
                       !.prose = r.ok /\ r.content.kind = "text"]
  IN  IF resp.success
      THEN Crash(got, "TypeError")
      ELSE [got EXCEPT !.pc = "receive"]

\* main.py websocket_endpoint, "Fallback to old parsing method": the second
\* system-message of a failed reply
main_send_fallback(cn) ==
  [Send(cn, SystemMessage(Fallback(cn.user))) EXCEPT !.pc = "receive"]

\* for tool_call in llm_response["tool_calls"]: the call of iteration i
NextCall(calls, i) == calls[i]

\* main.py: execute_tool_call has returned res (or raised)
main_after_execute(cn, res) ==
  IF res.type = "raise"
  THEN [Crash(cn, res.exc) EXCEPT !.ndone = @ + 1]
  ELSE [cn EXCEPT !.ndone = @ + 1, !.pending = res, !.pc = "send_result"]

\* the broadcast inside navigate_to_location and zoom_to_level
BroadcastEvent(res) ==
  Event("tool_result", res.tool, res.content, TRUE, res.map_state, "broadcast")

\* manager.broadcast: one iteration of "for connection in
\* self.active_connections" in the coroutine of c, up to the await of its
\* send_text.  The list iterator takes the entry at its index in the list
\* as the list is now.
manager_broadcast(cs, c) ==
  LET to == active[cs[c].bidx + 1]
  IN  [cs EXCEPT ![c].bidx = @ + 1, ![to] = Send(@, BroadcastEvent(cs[c].pending))]

\* json.dumps of api_response_data, which holds llm_response with the tool
\* calls as call_llm returned them: an object of the client library is not
\* JSON serializable, a mapping drawn from the text is
Encodable(cn) == \A k \in 1..Len(cn.offered) : cn.offered[k].form # "attr"

\* main.py: the tool_result message of one tool call, and the step of the
\* loop; TypeError leaves the coroutine when json.dumps cannot encode the
\* message
main_send_result(cn, ms) ==
  LET res == cn.pending
      ev  == Event("tool_result", "none",
                   IF res.type = "tool_result" THEN res.content ELSE "Tool executed",
                   TRUE, IF res.has_state THEN res.map_state ELSE Copy(ms), "personal")
  IN  IF ~Encodable(cn) THEN Crash(cn, "TypeError")
      ELSE [Send(cn, ev) EXCEPT !.pc = IF cn.ndone < Len(cn.calls) THEN "tools" ELSE "receive"]

\* main.py: the coroutine of c is past the for loop of a broadcast, or a
\* tool returned without one: up to the await of the tool_result message
main_after_broadcast(cs, c, ms) ==
  [cs EXCEPT ![c] = [main_send_result(cs[c], ms) EXCEPT !.at_send = ms]]

\* what one resumption of a coroutine leaves: map_state, the record of the
\* last dispatch and the connections
Step(ms, lst, cs) == [map_state |-> ms, last |-> lst, conn |-> cs]

\* main.py: one iteration of the for loop over the tool calls from the call
\* of execute_tool_call to the next await, in the coroutine of c with
\* map_state ms.  A tool mutates map_state, builds its result and enters
\* manager.broadcast, where the coroutine is suspended in the first
\* send_text; a call that is no tool's returns an error result without an
\* await, so the tool_result message follows in the same step.
\* The transport is outside the model: a send whose message can be encoded
\* is taken to succeed, and every send_text is a point where the other
\* coroutines may run.
main_tool_call(cs, c, ms) ==
  LET cn == cs[c]
      tc == NextCall(cn.calls, cn.ndone + 1)
      o  == main_execute_tool_call(ms, tc)
      ds == [d \in Conns |->
               IF d = c THEN [main_after_execute(cn, o.res) EXCEPT !.post = o.state, !.bidx = 0]
               ELSE [cs[d] EXCEPT !.foreign = @ \/ (o.state # ms)]]
  IN  Step(o.state, Called(tc, NoGeo, ms, o.res),
           CASE o.res.type = "raise" -> ds
             [] o.res.type = "tool_result" /\ active # <<>> -> manager_broadcast(ds, c)
             [] OTHER -> main_after_broadcast(ds, c, o.state))

\* main.py websocket_endpoint from the return of call_llm to the next await,
\* in the coroutine of c (lst is the record of the last dispatch so far).
\* Nothing suspends the coroutine between the return of call_llm and the
\* first execute_tool_call, so a reply with tool calls (structured, or drawn
\* from its text) runs the first of them in the same step.
main_on_reply(cs, c, ms, lst, r) ==
  LET resp == main_call_llm(r)
      got  == [cs[c] EXCEPT !.reply = ReplyKind(r), !.offered = r.tool_calls,
                          !.prose = r.ok /\ r.content.kind = "text"]
  IN  IF resp.success
      THEN IF resp.tool_calls # <<>>
           THEN main_tool_call([cs EXCEPT ![c] = [got EXCEPT !.calls = resp.tool_calls, !.pc = "tools"]],
                               c, ms)
           ELSE Step(ms, lst,
                     [cs EXCEPT ![c] =
                        [Send(got, Event("llm_response", "none", resp.content, FALSE, NoSnapshot, "personal"))
                           EXCEPT !.pc = "receive"]])
      ELSE Step(ms, lst, [cs EXCEPT ![c] = [Send(got, SystemMessage("llm_error")) EXCEPT !.pc = "fallback"]])

\* the coroutine of c resumes with the model's reply.
\* WebSocketHandler.handle_message never reaches its own loop over the tool
\* calls (lines 121-200): see handler_on_reply.
LLMReply(c, replies) ==
  /\ conn[c].pc = "call_llm"
  /\ \E r \in replies :
       LET met == [conn EXCEPT ![c].turn_pre = map_state, ![c].foreign = FALSE]
           to  == IF impl = "main" THEN main_on_reply(met, c, map_state, last, r)
                  ELSE Step(map_state, last, [met EXCEPT ![c] = handler_on_reply(met[c], r)])
       IN  /\ map_state' = to.map_state
           /\ last' = to.last
           /\ conn' = to.conn
  /\ UNCHANGED <<impl, active, held, norm>>

\* the coroutine of c resumes in the send_text of a tool_result message and
\* the for loop has another tool call.  No reply gets there: a message that
\* carries more than one tool call carries them as objects of the client
\* library, and json.dumps has raised on the first tool_result message.
ExecTool(c) ==
  /\ impl = "main"
  /\ conn[c].pc = "tools"
  /\ LET to == main_tool_call(conn, c, map_state)
     IN  /\ map_state' = to.map_state
         /\ last' = to.last
         /\ conn' = to.conn
  /\ UNCHANGED <<impl, active, held, norm>>

\* the coroutine of c resumes in manager.broadcast and the list has another
\* entry
Broadcast(c) ==
  /\ impl = "main"
  /\ conn[c].pc = "send_result"
  /\ conn[c].bidx < Len(active)
  /\ conn' = manager_broadcast(conn, c)
  /\ UNCHANGED <<impl, map_state, last, active, held, norm>>

\* the coroutine of c resumes in manager.broadcast and the list has no
\* other entry: the tool returns and its tool_result message is sent
SendResult(c) ==
  /\ impl = "main"
  /\ conn[c].pc = "send_result"
  /\ conn[c].bidx >= Len(active)
  /\ conn' = main_after_broadcast(conn, c, map_state)
  /\ UNCHANGED <<impl, map_state, last, active, held, norm>>

\* the coroutine of c resumes after the LLM error message
SendFallback(c) ==
  /\ impl = "main"
  /\ conn[c].pc = "fallback"
  /\ conn' = [conn EXCEPT ![c] = main_send_fallback(conn[c])]
  /\ UNCHANGED <<impl, map_state, last, active, held, norm>>

Init ==
  /\ impl \in {"main", "modular"}
  /\ map_state = InitialMapState
  /\ last = NoLast
  /\ conn = [c \in Conns |-> NewConn]
  /\ active = <<>>
  /\ held = NoHeld
  /\ norm = NoNorm

\* one client: the other connection is never opened, so the for loop of a
\* broadcast has the one iteration main_tool_call makes.  ExecTool is no
\* step of the program: no coroutine ever is suspended with another tool
\* call due.
Next ==
  \E c \in {"a"} :
    \/ Connect(c)
    \/ Disconnect(c)
    \/ Receive(c, Inbound)
    \/ LLMReply(c, Replies)
    \/ SendFallback(c)
    \/ SendResult(c)

Spec == Init /\ [][Next]_vars

(*********************** claims about the sessions *************************)
\* the turn of the current chat_message has ended
TurnOver(cn) == cn.llm_calls > 0 /\ cn.pc \in {"receive", "closed", "crashed"}

\* the messages of type t sent to the connection itself since its last
\* inbound message
Sent(cn, t) == {i \in 1..Len(cn.events) : cn.events[i].type = t /\ cn.events[i].via = "personal"}

\* the reply carried tool calls (structured, or extractable from its text)
WithToolCalls(cn) == cn.reply \in {"structured", "text_tool"}

\* the dispatcher applied to the calls of cs in order, from state ms
RECURSIVE ApplyCalls(_, _, _)
ApplyCalls(i, ms, cs) ==
  IF cs = <<>> THEN ms
  ELSE ApplyCalls(i, Dispatch(i, ms, Head(cs), NoGeo).state, Tail(cs))

\* the handling of the current chat_message has returned (the coroutine is
\* back at receive_text) and the model's reply to it carried tool calls: the
\* utterance has had no terminal turn
EndedWithoutTerminalTurn(cn) ==
  cn.pc = "receive" /\ cn.llm_calls > 0 /\ WithToolCalls(cn)

\* C5 as claimed: a model that returns tool calls on every turn makes the
\* orchestrator call the model exactly 5 times for the utterance and then
\* stop with the IterationLimitExceeded signal; there never are more than 5
\* model calls.
C5_FiveCallsThenGaveUp ==
  \A c \in Conns :
    /\ conn[c].llm_calls <= 5
    /\ EndedWithoutTerminalTurn(conn[c])
         => (conn[c].llm_calls = 5 /\ Sent(conn[c], "iteration_limit") # {})

\* C6 as claimed: once the tool calls of a model turn are executed, every
\* outcome has been appended to the context as a turn of its own and the
\* model has been called again with it: when the handling of the utterance
\* has returned, the context holds the seeded turns and one turn per
\* executed call at least, and the model was called a second time.
C6_OutcomesAppendedAndModelCalledAgain ==
  \A c \in Conns :
    (conn[c].pc = "receive" /\ conn[c].ndone > 0 /\ conn[c].ndone = Len(conn[c].calls))
      => /\ Len(conn[c].messages) >= Len(SeedMessages) + conn[c].ndone
         /\ conn[c].llm_calls >= 2

\* C7 as claimed: a reply without tool calls is emitted exactly once as an
\* llm_response, the turn ends normally, no tool runs, WorldState is
\* unchanged and the model is not called again.
C7_ProseEmittedOnce ==
  \A c \in Conns :
    (conn[c].llm_calls > 0 /\ conn[c].reply = "plain")
      => /\ conn[c].pc \in {"receive", "closed"}
         /\ Cardinality(Sent(conn[c], "llm_response")) = 1
         /\ conn[c].ndone = 0
         /\ conn[c].llm_calls = 1
         /\ map_state = conn[c].turn_pre

\* C8 as claimed: with a single session, the tool calls of a turn are
\* executed in the order the model emitted them, each from the state the
\* previous one left: at every moment WorldState is the dispatcher applied,
\* in emission order, to the calls executed so far (the first ndone of the
\* turn), from the state at the start of the turn, and when the turn is over
\* every call of it has been executed.
C8_CallsAppliedInEmissionOrder ==
  \A c \in Conns :
    (conn[c].pc # "new" /\ ~conn[c].foreign)
      => /\ conn[c].ndone <= Len(conn[c].calls)
         /\ map_state = ApplyCalls(impl, conn[c].turn_pre,
                                   SubSeq(conn[c].calls, 1, conn[c].ndone))
         /\ TurnOver(conn[c]) => conn[c].ndone = Len(conn[c].calls)

\* C9 as claimed: every tool call of a turn has a tool_call message before it
\* executes and a tool_result message after, whether it succeeds or fails.
C9_ToolCallAndResultEvents ==
  \A c \in Conns :
    /\ Cardinality(Sent(conn[c], "tool_call")) >= conn[c].ndone
    /\ conn[c].pc # "send_result"
         => Cardinality(Sent(conn[c], "tool_result")) = conn[c].ndone

\* C10 as claimed: a failed model call ends the turn with exactly one error
\* message; no tool runs, WorldState is unchanged, the model is not called
\* again.
C10_SingleErrorEvent ==
  \A c \in Conns :
    (conn[c].llm_calls > 0 /\ conn[c].reply = "failure")
      => /\ Len(conn[c].events) = 1
         /\ conn[c].events[1].type = "system-message"
         /\ conn[c].ndone = 0
         /\ conn[c].llm_calls = 1
         /\ map_state = conn[c].turn_pre

(************************** the dispatcher alone ***************************)
\* what the model may put under "latitude" / "longitude"
CoordValues == {Num(35), Num(95), Str(1), Absent}

\* what the model may put under "zoom_level"
ZoomValues ==
  {Num(-3), Num(0), Num(5), Num(20), Num(21), Num(99), Half(5), Half(25), Str(1), Absent}

AddressValues == {Str(1), Absent}

ToolNames == {"navigate_to_location", "zoom_to_level", "geocode_address", "fly_to"}

\* 95 is no latitude; 200 is no longitude
FarArgs ==
  {Args(Num(35), Num(200), Absent, Absent), Args(Num(95), Num(200), Absent, Absent)}

ObjectArgs ==
  {Args(lat, lon, Absent, Absent) : lat \in CoordValues, lon \in CoordValues}
    \cup FarArgs
    \cup {Args(Absent, Absent, z, Absent) : z \in ZoomValues}
    \cup {Args(Absent, Absent, Absent, a) : a \in AddressValues}

ToolCalls ==
  {ToolCall(f, n, a) : f \in {"attr", "dict"}, n \in ToolNames,
                       a \in ObjectArgs \cup {NonObjectArgs, MalformedArgs}}
    \cup {ToolCall("other", "none", NoArgs)}

Candidates ==
  {Candidate(Num(2), Num(48), Num(99), Str(2)),      \* a full candidate
   Candidate(Num(2), Num(48), Absent, Absent),       \* no score, no address
   Candidate(Num(2), Absent, Num(99), Str(2)),       \* no y
   Candidate(Absent, Absent, Absent, Absent),        \* no location
   Candidate(Str(3), Str(4), Num(99), Absent),       \* text coordinates, no address
   Candidate(Str(3), Str(4), Num(99), Str(2)),       \* text coordinates
   Candidate(Str(3), Str(4), Num(99), Num(0))}       \* text coordinates, address 0

GeoResponses ==
  {GeoResponse("client_error", <<>>), GeoResponse("http_error", <<>>),
   GeoResponse("json_error", <<>>), GeoResponse("payload", <<>>)}
    \cup {GeoResponse("payload", <<c>>) : c \in Candidates}
    \cup {GeoResponse("payload", <<Candidate(Num(2), Num(48), Num(99), Str(2)),
                                    Candidate(Num(7), Num(9), Num(50), Str(5))>>)}

\* the provider is asked only by MapTools.geocode_address
GeoFor(i, tc) ==
  IF i = "modular" /\ tc.form # "other" /\ tc.name = "geocode_address"
     /\ tc.args.parse = "object" /\ tc.args.address # Absent
  THEN GeoResponses ELSE {NoGeo}

DInit ==
  /\ impl \in {"main", "modular"}
  /\ map_state = InitialMapState
  /\ last = NoLast
  /\ conn = [c \in Conns |-> NewConn]
  /\ active = <<>>
  /\ held = NoHeld
  /\ norm = NoNorm

\* one call of MapTools.execute_tool_call
MapToolsCall ==
  /\ impl = "modular"
  /\ \E tc \in ToolCalls : \E geo \in GeoFor(impl, tc) :
       LET o == execute_tool_call(map_state, tc, geo)
       IN  /\ map_state' = o.state
           /\ last' = Called(tc, geo, map_state, o.res)
  /\ UNCHANGED <<impl, conn, active, held, norm>>

\* one call of main.py's execute_tool_call
MainCall ==
  /\ impl = "main"
  /\ \E tc \in ToolCalls :
       LET o == main_execute_tool_call(map_state, tc)
       IN  /\ map_state' = o.state
           /\ last' = Called(tc, NoGeo, map_state, o.res)
  /\ UNCHANGED <<impl, conn, active, held, norm>>

DNext == MapToolsCall \/ MainCall

SpecDispatch == DInit /\ [][DNext]_vars

(********************** claims about the dispatcher ************************)
\* a required argument of a registered tool is missing or malformed: the
\* arguments text is no JSON object, a required key is absent, or its value
\* has not the type the tool schema declares
BadRequiredArgument(tc) ==
  \/ tc.args.parse # "object"
  \/ /\ tc.name = "navigate_to_location"
     /\ (tc.args.latitude.k # "num" \/ tc.args.longitude.k # "num")
  \/ /\ tc.name = "zoom_to_level"
     /\ ~IsInteger(tc.args.zoom_level)
  \/ /\ tc.name = "geocode_address"
     /\ tc.args.address.k # "str"

\* C1 as claimed: after any sequence of dispatcher calls with any arguments,
\* WorldState.zoom is an integer in [0,20].
C1_ZoomIsIntegerInRange ==
  /\ IsInteger(map_state.zoom)
  /\ MinZoom <= map_state.zoom.w
  /\ map_state.zoom.w <= MaxZoom

\* C2 as claimed: a call naming an unregistered tool returns the "unknown
\* tool" error result and leaves WorldState as it was.
C2_UnknownToolIsErrorResult ==
  (last.valid /\ last.call.form # "other" /\ last.call.name \notin Registered(impl))
    => (last.res.type = "error" /\ last.res.content = "unknown_tool" /\ map_state = last.pre)

\* C3 as claimed: a call to a registered tool with a missing or malformed
\* required argument returns an error result (no exception instead of a
\* result) and leaves WorldState unchanged.
C3_SchemaViolationIsErrorResult ==
  (last.valid /\ last.call.form # "other" /\ last.call.name \in Registered(impl)
     /\ BadRequiredArgument(last.call))
    => (last.res.type = "error" /\ map_state = last.pre)

\* C4 as claimed: when geocode_address fails for any reason it returns an
\* error result and WorldState is the same as before the call.
C4_GeocodeFailureLeavesState ==
  (last.valid /\ impl = "modular" /\ last.call.form # "other"
     /\ last.call.name = "geocode_address" /\ last.geo # NoGeo
     /\ last.res.type # "tool_result")
    => (last.res.type = "error" /\ map_state = last.pre)

(********************* more claims about the sessions **********************)
\* the call names a registered tool and breaks its argument schema
SchemaViolation(i, tc) ==
  tc.form # "other" /\ tc.name \in Registered(i) /\ BadRequiredArgument(tc)

\* C11 as claimed: a tool call of a turn that breaks its argument schema
\* yields an error result for that call only (no exception ends the turn),
\* and the turn still executes every call, each with its tool_result message.
C11_RemainingCallsStillRun ==
  \A c \in Conns :
    (\E k \in 1..Len(conn[c].calls) : SchemaViolation(impl, conn[c].calls[k]))
      => /\ conn[c].pc # "crashed"
         /\ TurnOver(conn[c])
              => /\ conn[c].ndone = Len(conn[c].calls)
                 /\ Cardinality(Sent(conn[c], "tool_result")) = Len(conn[c].calls)

\* C14 as claimed: when the model's message carries structured tool calls,
\* the tool calls the turn works on are exactly those, in the same order,
\* whatever the content says (no call drawn from the text is added, put in
\* front or substituted).
C14_StructuredCallsAuthoritative ==
  \A c \in Conns :
    conn[c].reply = "structured"
      => (conn[c].offered # <<>> /\ conn[c].calls = conn[c].offered)

\* C17: on one connection the next inbound message is taken up only when
\* what the previous one started is over: the coroutine stands at
\* receive_text, every tool call of the turn has been executed and its
\* tool_result sent, and a reply without tool calls has been answered.
C17_NextUtteranceAfterTurnCompletes ==
  [][\A c \in Conns :
       conn'[c].received # conn[c].received
         => /\ conn[c].pc = "receive"
            /\ conn[c].ndone = Len(conn[c].calls)
            /\ Cardinality(Sent(conn[c], "tool_result")) = Len(conn[c].calls)
            /\ (conn[c].reply = "plain" /\ impl = "main")
                 => Cardinality(Sent(conn[c], "llm_response")) = 1]_vars

\* the second utterance is with the model, after a first turn that ran a tool
C17_Witness ==
  \E c \in Conns :
    /\ conn[c].received = 2 /\ conn[c].pc = "call_llm"
    /\ last.valid /\ map_state # InitialMapState

\* the dispatcher's answer to tc is no tool_result (SessionCalls fail or
\* succeed whatever the state)
Fails(i, tc) == Dispatch(i, InitialMapState, tc, NoGeo).res.type # "tool_result"

\* what an error report would carry: the error result's content or the
\* exception
ErrorTexts == {"unknown_tool", "invalid_format", "KeyError", "TypeError", "JSONDecodeError"}

\* C19 as claimed: every failed tool call of a turn is reported to the client
\* exactly once, with its error, and is executed once: the messages carrying
\* an error are as many as the failed calls executed so far.
C19_FailureReportedOnce ==
  \A c \in Conns :
    /\ conn[c].ndone <= Len(conn[c].calls)
    /\ conn[c].pc # "send_result"
         => Cardinality({k \in 1..Len(conn[c].events) :
                           /\ conn[c].events[k].via = "personal"
                           /\ conn[c].events[k].type # "llm_response"
                           /\ conn[c].events[k].content \in ErrorTexts})
              = Cardinality({k \in 1..conn[c].ndone : Fails(impl, conn[c].calls[k])})

LastCallTo(tool) ==
  /\ last.valid /\ last.call.form # "other"
  /\ last.call.name = tool /\ last.call.args.parse = "object"

\* C12: for every integer z, zoom_to_level(z) returns a success result and
\* stores z saturated to [0,20] (0 below 0, 20 above 20, z otherwise) as the
\* zoom, in WorldState and in the returned snapshot; the center is untouched.
C12_ZoomSaturates ==
  (LastCallTo("zoom_to_level") /\ IsInteger(last.call.args.zoom_level))
    => LET z == last.call.args.zoom_level.w
           e == IF z < MinZoom THEN MinZoom ELSE IF z > MaxZoom THEN MaxZoom ELSE z
       IN  /\ last.res.type = "tool_result"
           /\ map_state.zoom = Num(e)
           /\ last.res.map_state.zoom = Num(e)
           /\ map_state.center = last.pre.center

\* zoom_to_level(99) was called on a state with another zoom and stored 20
C12_Witness ==
  /\ LastCallTo("zoom_to_level") /\ last.call.args.zoom_level = Num(99)
  /\ last.pre.zoom # Num(MaxZoom) /\ map_state.zoom = Num(MaxZoom)

\* -90 <= lat <= 90 and -180 <= lon <= 180, both numbers
ValidLatLon(lat, lon) ==
  /\ lat.k = "num" /\ lon.k = "num"
  /\ ~Lt(lat, Num(-90)) /\ ~Lt(Num(90), lat)
  /\ ~Lt(lon, Num(-180)) /\ ~Lt(Num(180), lon)

\* C13: for every valid (lat, lon), navigate_to_location(lat, lon) succeeds
\* and leaves center = (lon, lat) exactly and the zoom as it was; the same
\* call once more returns the same result and leaves the state as it is.
C13_NavigateExactAndIdempotent ==
  (LastCallTo("navigate_to_location")
     /\ ValidLatLon(last.call.args.latitude, last.call.args.longitude))
    => /\ last.res.type = "tool_result"
       /\ map_state.center = <<last.call.args.longitude, last.call.args.latitude>>
       /\ map_state.zoom = last.pre.zoom
       /\ LET again == Dispatch(impl, map_state, last.call, NoGeo)
          IN  again.state = map_state /\ again.res = last.res

\* navigate_to_location(35, 95) was repeated on the state it had produced
C13_Witness ==
  /\ LastCallTo("navigate_to_location")
  /\ last.call.args.latitude = Num(35) /\ last.call.args.longitude = Num(95)
  /\ last.pre.center = <<Num(95), Num(35)>>
  /\ map_state.center = <<Num(95), Num(35)>>

\* C15 as claimed: WorldState differs from what it was before a dispatcher
\* call only when the call named a registered tool with arguments that meet
\* its schema and succeeded; failed calls and unknown tools leave it alone.
C15_OnlyValidatedCallsChangeState ==
  (last.valid /\ map_state # last.pre)
    => /\ last.call.form # "other"
       /\ last.call.name \in Registered(impl)
       /\ ~BadRequiredArgument(last.call)
       /\ last.res.type = "tool_result"

(*********************** a caller keeps a snapshot *************************)
SnapshotCalls ==
  {ToolCall("dict", "navigate_to_location", Args(Num(35), Num(95), Absent, Absent)),
   ToolCall("attr", "navigate_to_location", Args(Num(95), Num(35), Absent, Absent)),
   ToolCall("attr", "zoom_to_level", Args(Absent, Absent, Num(5), Absent)),
   ToolCall("dict", "zoom_to_level", Args(Absent, Absent, Num(99), Absent)),
   ToolCall("attr", "geocode_address", Args(Absent, Absent, Absent, Str(1))),
   ToolCall("attr", "fly_to", NoArgs)}

SnapshotGeo(i, tc) ==
  IF i = "modular" /\ tc.name = "geocode_address"
  THEN {GeoResponse("payload", <<Candidate(Num(2), Num(48), Num(99), Str(2))>>),
        GeoResponse("http_error", <<>>)}
  ELSE {NoGeo}

\* the call ran an assignment map_state["center"] = [...]: "center" now is
\* a new list object (navigate_to_location; geocode_address once the
\* candidate has both coordinates)
AssignsCenter(tc, geo, res) ==
  \/ res.type = "tool_result" /\ res.tool = "navigate_to_location"
  \/ /\ tc.name = "geocode_address" /\ res.type # "raise"
     /\ geo.kind = "payload" /\ geo.candidates # <<>>
     /\ Get(geo.candidates[1].x) # Null /\ Get(geo.candidates[1].y) # Null

\* one dispatcher call; its caller may keep the snapshot it returns
SnapshotCall ==
  \E tc \in SnapshotCalls : \E geo \in SnapshotGeo(impl, tc) : \E keep \in BOOLEAN :
    LET o == Dispatch(impl, map_state, tc, geo)
    IN  /\ map_state' = o.state
        /\ last' = Called(tc, geo, map_state, o.res)
        /\ held' = IF keep /\ ~held.valid /\ o.res.has_state
                   THEN Held(o.res.map_state, o.res.map_state, TRUE)
                   ELSE IF held.valid
                        THEN [held EXCEPT !.is_last = FALSE,
                                          !.alias = @ /\ ~AssignsCenter(tc, geo, o.res)]
                        ELSE held
        /\ UNCHANGED <<impl, conn, active, norm>>

\* what the caller writes into the snapshot it holds
WrittenValue == Num(7)

\* the caller assigns to the snapshot: snap["zoom"] = v, snap["center"] =
\* [v, v], or snap["center"][0] = v, which writes the list object that
\* map_state["center"] (and the snapshot of the last result) refers to as
\* long as no tool has assigned a new list.  While the snapshot is the dict
\* of the last result, that result reads whatever the caller writes.
WriteSnapshot ==
  /\ held.valid
  /\ \E part \in {"zoom", "center", "center[0]"} :
       LET v == WrittenValue
           shared == part = "center[0]" /\ held.alias
           ms == IF shared THEN [map_state EXCEPT !.center[1] = v] ELSE map_state
           snap == CASE part = "zoom"   -> [held.snap EXCEPT !.zoom = v]
                     [] part = "center" -> [held.snap EXCEPT !.center = <<v, v>>]
                     [] OTHER           -> [held.snap EXCEPT !.center[1] = v]
       IN  /\ map_state' = ms
           /\ last' = IF held.is_last
                      THEN [last EXCEPT !.res.map_state = snap]
                      ELSE IF shared /\ last.res.has_state
                      THEN [last EXCEPT !.res.map_state.center[1] = v] ELSE last
           /\ held' = [held EXCEPT !.snap = snap,
                                   !.alias = @ /\ part # "center",
                                   !.written = TRUE,
                                   !.hit = @ \/ (ms # map_state)]
  /\ UNCHANGED <<impl, conn, active, norm>>

SnapshotNext == SnapshotCall \/ WriteSnapshot

SpecSnapshot == Init /\ [][SnapshotNext]_vars

\* C16 as claimed: a snapshot a caller holds keeps the center and zoom it was
\* returned with through every later dispatcher call, and no assignment to
\* the snapshot changes WorldState.
C16_SnapshotIsACopy ==
  held.valid
    => /\ ~held.written => held.snap = held.taken
       /\ ~held.hit

(************************* two sessions, one map ***************************)
SharedInbound == {"chat_else"}

ZoomTwice ==
  <<ToolCall("attr", "zoom_to_level", Args(Absent, Absent, Num(99), Absent)),
    ToolCall("attr", "zoom_to_level", Args(Absent, Absent, Num(5), Absent))>>

NavigateOnce ==
  <<ToolCall("attr", "navigate_to_location", Args(Num(35), Num(139), Absent, Absent))>>

SharedReplies ==
  {Reply(TRUE, NoneText, ZoomTwice), Reply(TRUE, NoneText, NavigateOnce),
   Reply(TRUE, ProseText, <<>>), Reply(FALSE, NoneText, <<>>),
   Reply(TRUE, NavText, <<>>), Reply(TRUE, ZoomText, <<>>)}

\* every connection is served by its own coroutine; they interleave at
\* their awaits
SharedNext ==
  \E c \in Conns :
    \/ Connect(c)
    \/ Disconnect(c)
    \/ Receive(c, SharedInbound)
    \/ LLMReply(c, SharedReplies)
    \/ SendFallback(c)
    \/ Broadcast(c)
    \/ SendResult(c)

SpecShared == Init /\ [][SharedNext]_vars

\* the second tool call of a turn is due and WorldState no longer is what
\* the first call of the turn left: the tool call of the other session ran
\* in between, and the second call starts from what that one left
SecondCallAfterForeignChange ==
  \E c \in Conns :
    /\ conn[c].pc = "tools"
    /\ conn[c].ndone > 0 /\ conn[c].ndone < Len(conn[c].calls)
    /\ map_state # conn[c].post

\* a step of either coroutine
RaceStep == SharedNext

\* RaceWithin<k>: some run of at most k steps from the current state, in
\* whatever order the two coroutines take them, comes to such a second call
RaceWithin0 == SecondCallAfterForeignChange
RaceWithin1 == SecondCallAfterForeignChange \/ ENABLED (RaceStep /\ RaceWithin0')
RaceWithin2 == SecondCallAfterForeignChange \/ ENABLED (RaceStep /\ RaceWithin1')
RaceWithin3 == SecondCallAfterForeignChange \/ ENABLED (RaceStep /\ RaceWithin2')
RaceWithin4 == SecondCallAfterForeignChange \/ ENABLED (RaceStep /\ RaceWithin3')
RaceWithin5 == SecondCallAfterForeignChange \/ ENABLED (RaceStep /\ RaceWithin4')
RaceWithin6 == SecondCallAfterForeignChange \/ ENABLED (RaceStep /\ RaceWithin5')
RaceWithin7 == SecondCallAfterForeignChange \/ ENABLED (RaceStep /\ RaceWithin6')
RaceWithin8 == SecondCallAfterForeignChange \/ ENABLED (RaceStep /\ RaceWithin7')

\* nothing has happened yet: no connection is open
AtStart == conn = [c \in Conns |-> NewConn] /\ active = <<>> /\ map_state = InitialMapState

\* the server runs one of the two implementations
EitherImplementation ==
  /\ impl' \in {"main", "modular"}
  /\ UNCHANGED <<map_state, last, conn, active, held, norm>>

\* C18 as claimed: nothing isolates or locks the shared WorldState, so an
\* interleaving is reachable in which the tool call of the other session
\* changes center or zoom between two tool calls of one session's turn: in
\* one of the implementations, some order of at most 8 steps of two sessions
\* from the start brings one of them to the second call of its turn in a
\* WorldState the other session's call has changed since the first.  (Seven
\* steps is what the shortest such order takes: connect, receive, the reply
\* with the first call, and its tool_result message in one session; connect,
\* receive and the reply with its call in the other.)
C18_RaceIsReachable == AtStart => ENABLED (EitherImplementation /\ RaceWithin8')

\* as far as the race goes: the other session's tool call has changed
\* WorldState while a session stands in the sends of the first of its two
\* tool calls
C18_Witness ==
  \E c \in Conns :
    /\ conn[c].pc = "send_result"
    /\ conn[c].ndone = 1 /\ Len(conn[c].calls) = 2
    /\ map_state # conn[c].post

(************************ the normalizer on its own *************************)
\* tokens of a text
MaxTextLen == 3

Vocabulary ==
  {Word("navigate"), Word("go"), Word("to"), Word("tokyo"), Word("paris"),
   Word("zoom"), Word("level"), Word("in"), Word("hello"),
   Number(FALSE, <<5>>, <<>>), Number(FALSE, <<3, 5>>, <<>>),
   Number(FALSE, <<9, 9>>, <<>>), Number(FALSE, <<1, 3, 9>>, <<>>)}

\* texts with words and numbers beyond the vocabulary, and longer ones
LongTexts ==
  {<<Word("zoom"), Word("level"), Word("to"), Number(FALSE, <<5>>, <<>>)>>,
   <<Word("set"), Word("level"), Word("to"), Number(FALSE, <<9, 9>>, <<>>)>>,
   <<Word("zoom"), Word("level"), Number(FALSE, <<5>>, <<>>)>>,
   <<Word("zoom"), Word("out")>>,
   <<Word("zoom"), Word("closer")>>,
   <<Word("please"), Word("zoom"), Word("further")>>,
   <<Word("zoom"), Word("to"), Number(TRUE, <<5>>, <<>>)>>,
   <<Word("zoom"), Word("to"), Number(FALSE, <<5>>, <<5>>)>>,
   <<Word("show"), Word("me"), Word("paris")>>,
   <<Word("take"), Word("me"), Word("to"), Word("new"), Word("york")>>,
   <<Word("me"), Word("show"), Word("paris")>>,
   <<Word("navigate"), Word("tokyo"), Number(FALSE, <<3, 5>>, <<>>), Number(FALSE, <<1, 3, 9>>, <<>>)>>,
   <<Word("navigate"), Word("to"), Number(FALSE, <<5>>, <<>>), Word("zoom"), Word("to"), Number(FALSE, <<9, 9>>, <<>>)>>,
   <<Word("navigate"), Number(TRUE, <<7, 4>>, <<>>), Number(FALSE, <<3, 5>>, <<5>>)>>,
   <<Word("navigate"), Number(FALSE, <<3, 5>>, <<5, 6>>)>>,
   <<Word("navigate"), Number(FALSE, <<2, 0, 0>>, <<>>), Number(FALSE, <<3, 5>>, <<>>), Number(FALSE, <<1, 3, 9>>, <<>>)>>,
   <<Number(TRUE, <<7, 4>>, <<>>), Number(FALSE, <<3, 5>>, <<5>>), Word("eiffel"), Word("tower")>>}

Texts3 == SeqsUpTo(Vocabulary, MaxTextLen) \cup LongTexts

\* the string under "response", or under a key the parser does not know
SlotTexts ==
  {<<>>, <<Word("hello")>>, <<Word("go"), Word("to"), Word("paris")>>,
   <<Word("zoom"), Word("to"), Number(FALSE, <<9, 9>>, <<>>)>>,
   <<Word("navigate"), Number(FALSE, <<3, 5>>, <<>>), Number(FALSE, <<1, 3, 9>>, <<>>)>>}

ObjectArguments ==
  {AbsentArgs, NoArgs, NonObjectArgs,
   Args(Num(35), Num(139), Absent, Absent), Args(Absent, Absent, Num(99), Absent)}

\* JSON objects: {"response": ...} alone or with the keys of a tool call,
\* the three encodings of a tool call, objects of no known key, and
\* objects with "parameters" and no "function_name"
Objects ==
  {ObjectContent(JObject(Slot(t), FALSE, "none", AbsentArgs, AbsentArgs, AbsentArgs), <<>>, <<>>) :
     t \in SlotTexts}
    \cup {ObjectContent(JObject(Slot(t), TRUE, "zoom_to_level", a, AbsentArgs, AbsentArgs), <<>>, <<>>) :
            t \in {<<Word("hello")>>}, a \in ObjectArguments}
    \cup {ObjectContent(JObject(Slot(t), FALSE, "none", AbsentArgs, a, b), <<>>, <<>>) :
            t \in {<<Word("hello")>>}, a \in ObjectArguments, b \in {AbsentArgs, NoArgs}}
    \cup {ObjectContent(JObject(NoSlot, TRUE, n, a, b, AbsentArgs), <<>>, <<>>) :
            n \in {"navigate_to_location", "zoom_to_level", "fly_to"},
            a \in ObjectArguments, b \in {AbsentArgs, NoArgs}}
    \cup {ObjectContent(JObject(NoSlot, FALSE, "none", AbsentArgs, a, b), <<>>, <<>>) :
            a \in ObjectArguments, b \in ObjectArguments}
    \cup {ObjectContent(NoObject, k, t) :
            k \in {<<Word("note")>>, <<Word("navigate")>>, <<Word("paris")>>,
                   <<Number(FALSE, <<7>>, <<>>)>>},
            t \in SlotTexts}
    \cup {ObjectContent(JObject(NoSlot, FALSE, "none", a, AbsentArgs, AbsentArgs), <<>>, <<>>) :
            a \in ObjectArguments}
    \cup {ObjectContent(JObject(NoSlot, FALSE, "none", a, AbsentArgs, AbsentArgs), <<Word("note")>>, t) :
            a \in ObjectArguments \ {AbsentArgs},
            t \in {<<Word("navigate")>>, <<Word("hello")>>}}

Contents == {NoContent} \cup {TextContent(t) : t \in Texts3} \cup Objects

NInit ==
  /\ impl \in {"main", "modular"}
  /\ map_state = InitialMapState
  /\ last = NoLast
  /\ conn = [c \in Conns |-> NewConn]
  /\ active = <<>>
  /\ held = NoHeld
  /\ norm \in {Norm("input", c, NoNorm.out) : c \in Contents}

\* WebSocketHandler's normalizer, message_parser.parse_llm_response, is
\* given the content
ModularNormalize ==
  /\ impl = "modular"
  /\ norm.stage = "input"
  /\ norm' = Norm("normalized", norm.content, parse_llm_response(norm.content))
  /\ UNCHANGED <<impl, map_state, last, conn, active, held>>

\* main.py's call_llm gets a message with this content and no structured
\* tool calls: the content is returned as it is, with the tool call
\* extract_tool_from_text finds in it
MainNormalize ==
  /\ impl = "main"
  /\ norm.stage = "input"
  /\ LET r == main_call_llm(Reply(TRUE, Features(norm.content), <<>>))
     IN  norm' = Norm("normalized", norm.content,
                      Parsed("call_llm", norm.content, r.tool_calls))
  /\ UNCHANGED <<impl, map_state, last, conn, active, held>>

\* the tool call the normalizer emitted goes through the dispatcher
NormDispatch ==
  /\ norm.stage = "normalized"
  /\ norm.out.tool_calls # <<>>
  /\ LET tc == norm.out.tool_calls[1]
         o  == Dispatch(impl, map_state, tc, NoGeo)
     IN  /\ map_state' = o.state
         /\ last' = Called(tc, NoGeo, map_state, o.res)
  /\ norm' = [norm EXCEPT !.stage = "dispatched"]
  /\ UNCHANGED <<impl, conn, active, held>>

NNext == ModularNormalize \/ MainNormalize \/ NormDispatch

SpecNormalize == NInit /\ [][NNext]_vars

\* the normalizer has returned
Normalized == norm.stage \in {"normalized", "dispatched"}

\* the tool calls of name n the normalizer emitted
Emitted(n) == {k \in 1..Len(norm.out.tool_calls) : norm.out.tool_calls[k].name = n}

\* C21: for content that is a JSON object with key "response",
\* parse_llm_response returns a text_response whose content is the value of
\* "response", and no tool calls, whatever the value says and whatever other
\* keys the object has.
C21_ResponseValueIsTheText ==
  (Normalized /\ impl = "modular" /\ norm.content.kind = "object"
     /\ norm.content.obj.response.has)
    => /\ norm.out.type = "text_response"
       /\ norm.out.content = TextContent(norm.content.obj.response.toks)
       /\ norm.out.tool_calls = <<>>

\* {"response": "hello", "function_name": "zoom_to_level", ...} gave "hello"
C21_Witness ==
  /\ Normalized /\ impl = "modular"
  /\ norm.content.kind = "object" /\ norm.content.obj.has_name
  /\ norm.content.obj.response = Slot(<<Word("hello")>>)
  /\ norm.out = Parsed("text_response", TextContent(<<Word("hello")>>), <<>>)

\* C22: for a text (no JSON, no structured calls) with a wayfinding verb
\* that names a known place, the normalizer emits exactly one tool call,
\* navigate_to_location with the latitude and longitude the gazetteer has
\* for a place the text names; "navigate to tokyo" gives 35.6762, 139.6503.
C22_GazetteerCoordinates ==
  (Normalized /\ norm.content.kind = "text" /\ HasVerb(norm.content.toks)
     /\ PlacesIn(norm.content.toks) # {})
    => /\ Len(norm.out.tool_calls) = 1
       /\ norm.out.tool_calls[1].name = "navigate_to_location"
       /\ \E i \in PlacesIn(norm.content.toks) :
            /\ norm.out.tool_calls[1].args.latitude = Locations[i].lat
            /\ norm.out.tool_calls[1].args.longitude = Locations[i].lon
       /\ norm.content.toks = <<Word("navigate"), Word("to"), Word("tokyo")>>
            => /\ norm.out.tool_calls[1].args.latitude = Dec(FALSE, 35, 6762)
               /\ norm.out.tool_calls[1].args.longitude = Dec(FALSE, 139, 6503)

\* "navigate to tokyo" was normalized to one call
C22_Witness ==
  /\ Normalized
  /\ norm.content = TextContent(<<Word("navigate"), Word("to"), Word("tokyo")>>)
  /\ Len(norm.out.tool_calls) = 1

\* the text is "zoom to N" or "zoom level to N"
ZoomToN(toks) ==
  \/ Len(toks) = 3 /\ toks[1].s = "zoom" /\ toks[2].s = "to" /\ Digits(toks[3])
  \/ /\ Len(toks) = 4 /\ toks[1].s = "zoom" /\ toks[2].s = "level"
     /\ toks[3].s = "to" /\ Digits(toks[4])

\* C23 as claimed: for the text "zoom to N" or "zoom level to N" the
\* normalizer emits one zoom_to_level call whose level is N as written (99
\* for "zoom to 99"), and dispatching it stores max(0, min(20, N)).
C23_ZoomLevelAsWritten ==
  (Normalized /\ norm.content.kind = "text" /\ ZoomToN(norm.content.toks))
    => LET n == Num(DigitsValue(norm.content.toks[Len(norm.content.toks)].int))
       IN  /\ norm.out.tool_calls = <<ZoomCall(n)>>
           /\ norm.stage = "dispatched"
                => map_state.zoom = PyMax(Num(MinZoom), PyMin(Num(MaxZoom), n))

\* the text holds the zoom vocabulary of the patterns: "zoom", or "set level"
ZoomVocabulary(toks) == Contains(toks, <<"zoom">>) \/ Contains(toks, <<"set", "level">>)

\* C24: a text without any wayfinding verb yields no navigate_to_location
\* call, whatever places and numbers it holds, and a text without zoom
\* vocabulary yields no zoom_to_level call, whatever numbers it holds.
C24_GatedByVerbAndVocabulary ==
  (Normalized /\ norm.content.kind = "text")
    => /\ ~HasVerb(norm.content.toks) => Emitted("navigate_to_location") = {}
       /\ ~ZoomVocabulary(norm.content.toks) => Emitted("zoom_to_level") = {}

\* a text with a place, numbers and "level", but no verb and no "zoom", was
\* normalized to no call at all
C24_Witness ==
  /\ Normalized /\ norm.content.kind = "text"
  /\ ~HasVerb(norm.content.toks) /\ ~ZoomVocabulary(norm.content.toks)
  /\ PlacesIn(norm.content.toks) # {} /\ Contains(norm.content.toks, <<"level">>)
  /\ \E i \in 1..Len(norm.content.toks) : Digits(norm.content.toks[i])
  /\ norm.out.tool_calls = <<>>

\* C25: content in which parse_llm_response finds neither "response", nor an
\* encoding of a tool call, nor a text the extractor takes, is returned as a
\* text_response whose content is the content as it came, with no tool calls
\* and no exception.
C25_UnmatchedIsTerminalProse ==
  (Normalized /\ impl = "modular" /\ norm.content.kind # "none"
     /\ ~norm.content.obj.response.has
     /\ extract_json_tool_call(norm.content.obj) = NoCall
     /\ ~(HasVerb(RawText(norm.content))
            /\ (PlacesIn(RawText(norm.content)) # {}
                  \/ SearchCoordinates(RawText(norm.content)) # NoCoords)))
    => norm.out = Parsed("text_response", norm.content, <<>>)

\* "hello 5" came back as it was
C25_Witness ==
  /\ Normalized /\ impl = "modular"
  /\ norm.content = TextContent(<<Word("hello"), Number(FALSE, <<5>>, <<>>)>>)
  /\ norm.out.type = "text_response" /\ norm.out.content = norm.content

\* a navigate extractor of the implementation takes the text: the verb is
\* there, with a known place or a pair of numbers in range
NavigateMatches ==
  /\ HasVerb(norm.content.toks)
  /\ \/ PlacesIn(norm.content.toks) # {}
     \/ impl = "modular" /\ SearchCoordinates(norm.content.toks) # NoCoords
     \/ impl = "main" /\ main_extract_coordinates_from_text(norm.content.toks) # NoCoords

\* the text holds a zoom phrase main.py's zoom extractor takes
ZoomMatches ==
  ZoomWord(norm.content.toks) /\ main_extract_zoom_from_text(norm.content.toks) # Absent

\* C30: text extraction gives at most one tool call; a text with a
\* wayfinding verb, a known place and a pair of numbers in range gives the
\* coordinates of a place it names and not the pair; a text that a navigate
\* extractor and a zoom phrase both match gives the navigate call only.
C30_FirstExtractorWins ==
  (Normalized /\ norm.content.kind = "text")
    => /\ Len(norm.out.tool_calls) <= 1
       /\ (HasVerb(norm.content.toks) /\ PlacesIn(norm.content.toks) # {}
             /\ SearchCoordinates(norm.content.toks) # NoCoords)
            => /\ norm.out.tool_calls # <<>>
               /\ \E i \in PlacesIn(norm.content.toks) :
                    norm.out.tool_calls[1] = NavigateCall(<<Locations[i].lat, Locations[i].lon>>)
               /\ norm.out.tool_calls[1] # NavigateCall(SearchCoordinates(norm.content.toks))
       /\ (NavigateMatches /\ ZoomMatches)
            => /\ Emitted("navigate_to_location") = {1}
               /\ Emitted("zoom_to_level") = {}

\* main.py took a text with a pair of numbers and a zoom phrase as a
\* navigation, and a text with a place and a pair was normalized too
C30_Witness ==
  /\ Normalized /\ impl = "main" /\ norm.content.kind = "text"
  /\ PlacesIn(norm.content.toks) = {}
  /\ NavigateMatches /\ ZoomMatches
  /\ Len(norm.out.tool_calls) = 1
  /\ norm.out.tool_calls[1].name = "navigate_to_location"

(********************** more claims about the dispatcher *******************)
\* C29: when the first candidate of the provider's answer has numbers for x
\* and y, one geocode_address call leaves center at that candidate's
\* (x, y), that is (longitude, latitude), and zoom at 15, whatever the other
\* candidates are, and returns a tool_result with that latitude and
\* longitude, the candidate's score (0 without one) and address ("" without
\* one), and a snapshot equal to the new state.
C29_GeocodeTakesFirstCandidate ==
  (last.valid /\ impl = "modular" /\ last.call.form # "other"
     /\ last.call.name = "geocode_address" /\ last.geo # NoGeo
     /\ last.geo.kind = "payload" /\ last.geo.candidates # <<>>
     /\ last.geo.candidates[1].x.k = "num" /\ last.geo.candidates[1].y.k = "num")
    => LET best == last.geo.candidates[1]
       IN  /\ map_state.center = <<best.x, best.y>>
           /\ map_state.zoom = Num(GeocodeZoom)
           /\ last.res.type = "tool_result" /\ last.res.tool = "geocode_address"
           /\ last.res.coordinates.latitude = best.y
           /\ last.res.coordinates.longitude = best.x
           /\ last.res.coordinates.confidence = (IF best.score = Absent THEN Num(0) ELSE best.score)
           /\ last.res.coordinates.formatted_address =
                (IF best.address = Absent THEN EmptyStr ELSE best.address)
           /\ last.res.has_state /\ last.res.map_state = map_state

\* an answer of two candidates with different coordinates moved the map to
\* the first one's
C29_Witness ==
  /\ last.valid /\ impl = "modular" /\ last.call.name = "geocode_address"
  /\ last.geo # NoGeo /\ last.geo.kind = "payload" /\ Len(last.geo.candidates) = 2
  /\ last.geo.candidates[1].x # last.geo.candidates[2].x
  /\ map_state.center = <<last.geo.candidates[1].x, last.geo.candidates[1].y>>
  /\ last.res.type = "tool_result"
  /\ last.pre.center # map_state.center

(********************** more claims about the sessions *********************)
\* C26 as claimed: when the model's message has both a text as content and
\* tool calls, every tool call is executed in order and then the text is
\* emitted as one llm_response: no llm_response goes out before the last
\* call is done, and when the turn is over it has returned normally, every
\* call has run and the llm_response has been sent.
C26_CallsThenProse ==
  \A c \in Conns :
    (conn[c].llm_calls > 0 /\ conn[c].prose /\ conn[c].offered # <<>>)
      => /\ Sent(conn[c], "llm_response") # {} => conn[c].ndone = Len(conn[c].offered)
         /\ TurnOver(conn[c])
              => /\ conn[c].pc # "crashed"
                 /\ conn[c].calls = conn[c].offered
                 /\ conn[c].ndone = Len(conn[c].offered)
                 /\ Cardinality(Sent(conn[c], "llm_response")) = 1

\* C27 as claimed: when the tool_result message of a tool call cannot be
\* encoded, the error is caught, a system-message is sent in its place and
\* the session goes on: the connection is not lost, the remaining calls of
\* the turn run, and WorldState stays what the executed calls made it.
C27_UnencodableEventReplaced ==
  \A c \in Conns :
    (conn[c].ndone > 0 /\ ~Encodable(conn[c]) /\ conn[c].pc # "send_result")
      => /\ conn[c].pc # "crashed"
         /\ Sent(conn[c], "system-message") # {}
         /\ TurnOver(conn[c]) => conn[c].ndone = Len(conn[c].calls)
         /\ ~conn[c].foreign
              => map_state = ApplyCalls(impl, conn[c].turn_pre,
                                        SubSeq(conn[c].calls, 1, conn[c].ndone))

\* C28 as claimed: an inbound message of another type than chat_message, or
\* without a type, is ignored: no model call, no tool execution, no outbound
\* event, no change of WorldState, and the connection goes on reading.
C28_NonChatIgnored ==
  \A c \in Conns :
    conn[c].frame \in {"other_type", "no_type"}
      => /\ conn[c].pc \in {"receive", "closed"}
         /\ conn[c].llm_calls = 0 /\ conn[c].ndone = 0
         /\ conn[c].events = <<>>
         /\ map_state = conn[c].turn_pre

(******************** more claims about the normalizer *********************)
\* the numbers of the text, in its order
NumbersOf(toks) == SelectSeq(toks, IsNumber)

\* two numbers of the text that follow each other, the first a latitude and
\* the second a longitude
ValidPairs(toks) ==
  {k \in 1..(Len(NumbersOf(toks)) - 1) :
     InRange(WholePair(NumbersOf(toks)[k], NumbersOf(toks)[k + 1]))}

\* C31 as claimed: for a text with a wayfinding verb and no known place, the
\* normalizer emits a navigate_to_location call exactly when the text holds
\* two numbers of which the first is in [-90, 90] and the second in
\* [-180, 180], the call carries such a pair of the text, and every navigate
\* call drawn from a text has its latitude and longitude in these ranges.
C31_NumericScanFindsValidPairs ==
  (Normalized /\ norm.content.kind = "text")
    => /\ \A k \in Emitted("navigate_to_location") :
            InRange(<<norm.out.tool_calls[k].args.latitude,
                      norm.out.tool_calls[k].args.longitude>>)
       /\ (HasVerb(norm.content.toks) /\ PlacesIn(norm.content.toks) = {})
            => /\ Emitted("navigate_to_location") # {}
                    <=> ValidPairs(norm.content.toks) # {}
               /\ \A k \in Emitted("navigate_to_location") :
                    \E j \in ValidPairs(norm.content.toks) :
                      norm.out.tool_calls[k] =
                        NavigateCall(WholePair(NumbersOf(norm.content.toks)[j],
                                               NumbersOf(norm.content.toks)[j + 1]))

(******************** more claims about the dispatcher *********************)
\* C32: navigate_to_location called with numbers of which the latitude is
\* outside [-90, 90] or the longitude outside [-180, 180] returns a
\* tool_result all the same and stores center = (longitude, latitude) as
\* given, the zoom staying as it was.
C32_NavigateDoesNotValidate ==
  (LastCallTo("navigate_to_location")
     /\ last.call.args.latitude.k = "num" /\ last.call.args.longitude.k = "num"
     /\ ~ValidLatLon(last.call.args.latitude, last.call.args.longitude))
    => /\ last.res.type = "tool_result" /\ last.res.tool = "navigate_to_location"
       /\ map_state.center = <<last.call.args.longitude, last.call.args.latitude>>
       /\ map_state.zoom = last.pre.zoom
       /\ last.res.map_state = map_state

\* MapTools stored latitude 95 and longitude 200
C32_Witness ==
  /\ LastCallTo("navigate_to_location") /\ impl = "modular"
  /\ last.call.args.latitude = Num(95) /\ last.call.args.longitude = Num(200)
  /\ last.res.type = "tool_result"
  /\ last.pre.center # map_state.center
  /\ map_state.center = <<Num(200), Num(95)>>

\* the calls of the tool with an object of arguments
CallsTo(tool) == {tc \in ToolCalls : tc.form # "other" /\ tc.name = tool /\ tc.args.parse = "object"}

\* the state after call x and then call y, from state ms
Both(ms, x, y) == Dispatch(impl, Dispatch(impl, ms, x, NoGeo).state, y, NoGeo).state

\* C36: a zoom_to_level call leaves center as it was and a
\* navigate_to_location call leaves zoom as it was, whatever their arguments
\* and outcome; so the call and any call of the other tool, dispatched one
\* after the other from the same state, leave the same state in either order.
C36_ZoomAndNavigateCommute ==
  /\ LastCallTo("zoom_to_level")
       => /\ map_state.center = last.pre.center
          /\ \A n \in CallsTo("navigate_to_location") :
               Both(last.pre, last.call, n) = Both(last.pre, n, last.call)
  /\ LastCallTo("navigate_to_location")
       => /\ map_state.zoom = last.pre.zoom
          /\ \A z \in CallsTo("zoom_to_level") :
               Both(last.pre, last.call, z) = Both(last.pre, z, last.call)

\* a zoom call changed the zoom of a map that had been moved, and the
\* center stayed
C36_Witness ==
  /\ LastCallTo("zoom_to_level") /\ impl = "modular"
  /\ last.res.type = "tool_result"
  /\ last.pre.center # DefaultCenter /\ map_state.center = last.pre.center
  /\ map_state.zoom # last.pre.zoom

(********************* more claims about the sessions **********************)
\* the events a turn of main.py with the one call tc, handed over in the
\* given form among the tool calls of the model's message, leaves on the
\* connection: the broadcast of the tool and the tool_result message
TurnEvents(cn, tc, form) ==
  LET call  == [tc EXCEPT !.form = form]
      o     == main_execute_tool_call(cn.turn_pre, call)
      start == [cn EXCEPT !.offered = <<call>>, !.calls = <<call>>, !.ndone = 0,
                          !.events = <<>>, !.pc = "tools", !.exc = "none"]
      ran   == main_after_execute(start, o.res)
      heard == IF o.res.type = "tool_result" THEN Send(ran, BroadcastEvent(o.res)) ELSE ran
  IN  IF heard.pc = "send_result" THEN main_send_result(heard, o.state).events
      ELSE heard.events

\* C37 as claimed, for the two forms of a call: a turn whose one tool call
\* was given in attribute style or in mapping style has the dispatcher
\* result, the WorldState and the events the same call in the other style
\* gives.
C37_FormsAreEquivalent ==
  \A c \in Conns :
    (impl = "main" /\ TurnOver(conn[c]) /\ ~conn[c].foreign
       /\ Len(conn[c].calls) = 1 /\ conn[c].ndone = 1)
      => LET tc    == conn[c].calls[1]
             other == IF tc.form = "attr" THEN "dict" ELSE "attr"
         IN  /\ main_execute_tool_call(conn[c].turn_pre, [tc EXCEPT !.form = other])
                  = main_execute_tool_call(conn[c].turn_pre, tc)
             /\ map_state = main_execute_tool_call(conn[c].turn_pre, [tc EXCEPT !.form = other]).state
             /\ conn[c].events = TurnEvents(conn[c], tc, other)

\* the model's message offers a tool call the dispatcher fails on: an
\* unknown tool or a missing argument
FailingOffer(cn) ==
  \E k \in 1..Len(cn.offered) :
    Dispatch(impl, cn.turn_pre, cn.offered[k], NoGeo).res.type # "tool_result"

\* C33 as claimed: a tool call that fails does not end the receive loop of
\* its connection: the coroutine is not left by an exception and the
\* connection stays registered, so that the next chat_message is processed.
C33_FailedCallKeepsConnection ==
  \A c \in Conns :
    (conn[c].llm_calls > 0 /\ FailingOffer(conn[c]))
      => /\ conn[c].pc # "crashed"
         /\ conn[c].pc # "closed" => IsActive(c)

\* C35 as claimed: every tool_result event a session gets comes after a
\* tool_call event of the same tool, with no event of another tool between
\* the two, and names the tool that tool_call event names.
C35_ResultFollowsItsCall ==
  \A c \in Conns : \A i \in 1..Len(conn[c].events) :
    conn[c].events[i].type = "tool_result"
      => \E j \in 1..(i - 1) :
           /\ conn[c].events[j].type = "tool_call"
           /\ conn[c].events[j].tool = conn[c].events[i].tool
           /\ \A k \in (j + 1)..(i - 1) : conn[c].events[k].tool = conn[c].events[i].tool

\* the last tool_result message sent to the session itself
LastResult(cn) ==
  cn.events[CHOOSE i \in Sent(cn, "tool_result") : \A j \in Sent(cn, "tool_result") : j <= i]

\* C34 as claimed: the map_state of a tool_result message is WorldState as
\* it was when the execution of its tool finished, whatever other sessions do
\* on the shared state: the snapshot is of the state at the tool's return,
\* on which the message is built without another await.
C34_SnapshotIsOfTheStateAtCompletion ==
  \A c \in Conns :
    (conn[c].pc \in {"tools", "receive", "closed"} /\ conn[c].ndone > 0
       /\ Cardinality(Sent(conn[c], "tool_result")) = conn[c].ndone)
      => LastResult(conn[c]).map_state = conn[c].at_send

====
